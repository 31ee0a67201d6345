------------------------- MODULE InboundBudgetProofs -------------------------
(***************************************************************************)
(* Proofs that the inbound budget of module InboundBudget keeps its rate,  *)
(* spaces its notices and keeps the promise of each notice, for every      *)
(* rate, burst and window, and every rounding that loses less over a wait  *)
(* than comes back in a millisecond.                                       *)
(***************************************************************************)
EXTENDS InboundBudget, TLAPS

\* A larger time brings back at least as many tokens.
LEMMA Monotone == ASSUME NEW r \in Nat, NEW a \in Int, NEW b \in Int, a <= b
                  PROVE  r * a <= r * b
<1>1. r * (b - a) >= 0
  <2>. DEFINE d == b - a
  <2>1. d \in Nat
    OBVIOUS
  <2>2. \A x \in Nat : r * x >= 0
    OBVIOUS
  <2> QED BY <2>1, <2>2
<1>2. r * (b - a) = r * b - r * a
  OBVIOUS
<1> QED BY <1>1, <1>2

\* Rounding a quotient up and multiplying again loses nothing.
LEMMA RoundedUp == ASSUME NEW r \in Nat \ {0}, NEW x \in Nat
                   PROVE  /\ (x + r - 1) \div r \in Nat
                          /\ r * ((x + r - 1) \div r) >= x
<1>. DEFINE y == x + r - 1
            q == y \div r
            m == y % r
<1>1. y \in Nat
  OBVIOUS
<1>2. y = r * q + m /\ m \in 0 .. r - 1 /\ q \in Nat
  BY <1>1
<1> QED BY <1>2

\* What the constants give: a wait of at least a millisecond, and a rate
\* above the rounding.
LEMMA Constants ==
    /\ MaxWait \in Nat /\ Slack \in Nat /\ Slack = Err * MaxWait + Err
    /\ Err < Rate /\ Slack <= Rate - Err
    /\ Unit * Burst \in Nat /\ Unit <= Unit * Burst
<1>. USE BudgetAssumption
<1>1. MaxWait \in Nat
  <2>1. Unit + Err \in Nat
    OBVIOUS
  <2> QED BY <2>1, RoundedUp DEF MaxWait
<1>2. Err * (MaxWait + 1) = Err * MaxWait + Err
  BY <1>1
<1>3. Err * MaxWait \in Nat
  BY <1>1
<1>4. Unit * 1 <= Unit * Burst
  BY Monotone
<1> QED BY <1>1, <1>2, <1>3, <1>4 DEF Slack

\* A refill takes nothing out of the bucket, brings back no more than the
\* time and the rounding allow, and no less unless the bucket is full.
LEMMA RefillType ==
    ASSUME TypeOK, NEW t \in Refills
    PROVE  /\ t \in 0 .. Unit * Burst
           /\ tokens <= t
           /\ t <= Most
           /\ t < Unit => t >= tokens + (now - refilledAt) * (Rate - Err)
<1>. USE BudgetAssumption
<1>. DEFINE d == now - refilledAt
<1>1. d \in Nat /\ tokens \in 0 .. Unit * Burst
  BY DEF TypeOK
<1>2. /\ d * (Rate + Err) = d * Rate + d * Err
      /\ d * (Rate - Err) = d * Rate - d * Err
      /\ d * Rate \in Nat /\ d * Err \in Nat
  BY <1>1
<1>3. CASE now = refilledAt
  <2>1. t = tokens /\ d = 0
    BY <1>1, <1>3 DEF Refills, TypeOK
  <2>2. Most = Least(Unit * Burst, tokens + d * (Rate + Err))
    BY DEF Most
  <2>3. (now - refilledAt) * (Rate - Err) = 0 /\ d * (Rate + Err) = 0
    BY <1>2, <2>1
  <2> QED BY <1>1, <2>1, <2>2, <2>3, Constants DEF Least
<1>4. CASE now # refilledAt
  <2>1. d >= 1
    BY <1>1, <1>4 DEF TypeOK
  <2>2. PICK v \in ((tokens + (now - refilledAt) * Rate) - Err)
                     .. ((tokens + (now - refilledAt) * Rate) + Err) :
          t = Least(Unit * Burst, v)
    BY <1>4 DEF Refills
  <2>2a. v \in (tokens + d * Rate - Err) .. (tokens + d * Rate + Err)
    BY <1>1, <1>2, <2>2
  <2>3. Err * 1 <= Err * d /\ Rate * 1 <= Rate * d
    BY <1>1, <2>1, Monotone
  <2>4. Err * d = d * Err /\ Rate * d = d * Rate
    BY <1>1
  <2>5. v \in Int /\ v >= tokens /\ v <= tokens + d * (Rate + Err)
        /\ v >= tokens + d * (Rate - Err)
    <3> HIDE DEF d
    <3> QED BY <1>1, <1>2, <2>2a, <2>3, <2>4, Constants
  <2> HIDE DEF d
  <2>6. /\ t \in 0 .. Unit * Burst /\ tokens <= t
        /\ t < Unit => t >= tokens + d * (Rate - Err)
    BY <1>1, <2>2, <2>5, Constants DEF Least
  <2>7. t <= Least(Unit * Burst, tokens + d * (Rate + Err))
    BY <1>1, <1>2, <2>2, <2>5, Constants DEF Least
  <2> QED BY <2>6, <2>7 DEF Most, d
<1> QED BY <1>3, <1>4

\* The time a notice tells: at least a millisecond, and long enough for what
\* is missing, but for one rounding.
LEMMA WaitType ==
    ASSUME NEW t \in 0 .. Unit - 1,
           NEW missing \in (Unit - t - Err) .. (Unit - t + Err), missing > 0
    PROVE  /\ RetryAfter(missing) \in 1 .. MaxWait
           /\ Rate * RetryAfter(missing) \in Int
           /\ Rate * RetryAfter(missing) >= Unit - t - Err
<1>. USE BudgetAssumption
<1>1. missing \in Nat
  OBVIOUS
<1>2. missing <= Unit + Err /\ missing >= Unit - t - Err /\ Unit - t - Err \in Int
  OBVIOUS
<1>. DEFINE w == RetryAfter(missing)
<1>3. w \in Nat /\ Rate * w >= missing
  BY <1>1, RoundedUp DEF RetryAfter
<1>4. w >= 1
  <2>1. Rate * 0 = 0
    OBVIOUS
  <2> QED BY <1>1, <1>3, <2>1
<1>5. w <= MaxWait
  <2>. DEFINE a == missing + Rate - 1
              b == Unit + Err + Rate - 1
  <2>1. a \in Nat /\ b \in Nat /\ a <= b
    BY <1>1, <1>2
  <2>2. a = Rate * (a \div Rate) + (a % Rate) /\ a % Rate \in 0 .. Rate - 1 /\ a \div Rate \in Nat
    BY <2>1
  <2>3. b = Rate * (b \div Rate) + (b % Rate) /\ b % Rate \in 0 .. Rate - 1 /\ b \div Rate \in Nat
    BY <2>1
  <2>4. a \div Rate <= b \div Rate
    <3>. DEFINE x == a \div Rate
                y == b \div Rate
    <3>1. SUFFICES ASSUME y + 1 <= x PROVE FALSE
      BY <2>2, <2>3
    <3>2. Rate * (y + 1) <= Rate * x
      BY <2>2, <2>3, <3>1, Monotone
    <3>3. Rate * (y + 1) = Rate * y + Rate /\ Rate * x \in Int /\ Rate * y \in Int
      BY <2>2, <2>3
    <3>. HIDE DEF x, y, a, b
    <3>4. /\ a = Rate * x + (a % Rate) /\ b = Rate * y + (b % Rate)
          /\ a % Rate \in 0 .. Rate - 1 /\ b % Rate \in 0 .. Rate - 1
      BY <2>2, <2>3 DEF x, y
    <3> QED BY <2>1, <3>2, <3>3, <3>4
  <2> QED BY <2>4 DEF RetryAfter, MaxWait
<1>6. Rate * w \in Int
  BY <1>3
<1>. HIDE DEF w
<1>7. Rate * w >= Unit - t - Err /\ w \in 1 .. MaxWait
  BY <1>1, <1>2, <1>3, <1>4, <1>5, <1>6, Constants
<1> QED BY <1>6, <1>7 DEF w

\* What a dropped frame leaves, and what its notice promises.
LEMMA DropEffect ==
    ASSUME TypeOK, Drop
    PROVE  \E t \in Refills :
             /\ t \in 0 .. Unit - 1
             /\ tokens' = t /\ refilledAt' = now
             /\ UNCHANGED <<now, from, admitted>>
             /\ \/ UNCHANGED <<windowEnd, notices, promised>>
                \/ /\ NoticeDue
                   /\ windowEnd' = now + Window /\ notices' = notices + 1
                   /\ \E w \in 1 .. MaxWait :
                        /\ promised' = now + w
                        /\ Rate * w \in Int /\ Rate * w >= Unit - t - Err
<1>1. PICK t \in Refills : t < Unit /\ tokens' = t
  BY DEF Drop
<1>2. t \in 0 .. Unit - 1
  BY <1>1, RefillType, Constants, BudgetAssumption
<1>3. CASE NoticeDue
  <2>1. PICK missing \in (Unit - t - Err) .. (Unit - t + Err) :
          missing > 0 /\ promised' = now + RetryAfter(missing)
    BY <1>1, <1>3 DEF Drop, Notify
  <2>2. /\ RetryAfter(missing) \in 1 .. MaxWait
        /\ Rate * RetryAfter(missing) \in Int
        /\ Rate * RetryAfter(missing) >= Unit - t - Err
    BY <1>2, <2>1, WaitType
  <2> QED BY <1>1, <1>2, <1>3, <2>1, <2>2 DEF Drop, Notify
<1>4. CASE ~NoticeDue
  BY <1>1, <1>2, <1>4 DEF Drop
<1> QED BY <1>3, <1>4

LEMMA TypeStep == TypeOK /\ [Next]_vars => TypeOK'
<1>. SUFFICES ASSUME TypeOK, [Next]_vars PROVE TypeOK'
  OBVIOUS
<1>. USE BudgetAssumption
<1>1. CASE Admit
  <2>1. PICK t \in Refills : t >= Unit /\ tokens' = t - Unit
    BY <1>1 DEF Admit
  <2>2. tokens' \in 0 .. Unit * Burst
    BY <2>1, RefillType, Constants
  <2> QED BY <1>1, <2>2 DEF TypeOK, Admit
<1>2. CASE Drop
  <2>1. PICK t \in Refills :
          /\ t \in 0 .. Unit - 1
          /\ tokens' = t /\ refilledAt' = now
          /\ UNCHANGED <<now, from, admitted>>
          /\ \/ UNCHANGED <<windowEnd, notices, promised>>
             \/ /\ windowEnd' = now + Window /\ notices' = notices + 1
                /\ \E w \in 1 .. MaxWait : promised' = now + w
    BY <1>2, DropEffect
  <2>2. t \in 0 .. Unit * Burst
    BY <2>1, Constants
  <2>3. \A w \in 1 .. MaxWait : now + w \in Nat
    BY Constants DEF TypeOK
  <2> QED BY <2>1, <2>2, <2>3 DEF TypeOK
<1>3. CASE Tick
  BY <1>3 DEF TypeOK, Tick, bucket
<1>4. CASE Observe
  BY <1>4 DEF TypeOK, Observe, bucket
<1>5. CASE UNCHANGED vars
  BY <1>5 DEF TypeOK, vars, bucket
<1> QED BY <1>1, <1>2, <1>3, <1>4, <1>5 DEF Next

\* The bucket never holds less than nothing nor more than Burst frames, and
\* is never refilled ahead of time.
THEOREM TypeCorrect == Spec => []TypeOK
<1>1. Init => TypeOK
  BY BudgetAssumption DEF Init, TypeOK
<1> QED BY <1>1, TypeStep, PTL DEF Spec

-----------------------------------------------------------------------------
(* The rate *)

\* A bucket refilled at the present time holds what it holds.
LEMMA MostNow == ASSUME NEW t \in 0 .. Unit * Burst, NEW n \in Nat
                 PROVE  Least(Unit * Burst, t + (n - n) * (Rate + Err)) = t
<1>1. (n - n) * (Rate + Err) = 0
  BY BudgetAssumption
<1> QED BY <1>1, Constants DEF Least

LEMMA PaidStep == TypeOK /\ TypeOK' /\ Paid /\ [Next]_vars => Paid'
<1>. SUFFICES ASSUME TypeOK, TypeOK', Paid, [Next]_vars PROVE Paid'
  OBVIOUS
<1>. USE BudgetAssumption
<1>. DEFINE R == Rate + Err
<1>0. /\ R \in Nat /\ Unit * admitted \in Nat /\ R * (now - from) \in Nat
      /\ Unit * Burst \in Nat /\ Most \in Nat
  <2>1. (now - refilledAt) * (Rate + Err) \in Nat
    BY DEF TypeOK
  <2> QED BY <2>1, Constants DEF TypeOK, Most, Least
<1>1. CASE Admit
  <2>1. PICK t \in Refills : t >= Unit /\ tokens' = t - Unit
    BY <1>1 DEF Admit
  <2>2. t <= Most /\ t \in Nat /\ t - Unit \in 0 .. Unit * Burst
    BY <2>1, RefillType, Constants
  <2>3. Most' = t - Unit
    <3>1. Most' = Least(Unit * Burst, (t - Unit) + (now - now) * (Rate + Err))
      BY <1>1, <2>1 DEF Admit, Most
    <3> QED BY <2>2, <3>1, MostNow DEF TypeOK
  <2>4. Unit * admitted' = Unit * admitted + Unit
    BY <1>1 DEF Admit, TypeOK
  <2> QED BY <1>0, <1>1, <2>1, <2>2, <2>3, <2>4 DEF Admit, Paid
<1>2. CASE Drop
  <2>1. PICK t \in Refills : t \in 0 .. Unit - 1 /\ tokens' = t
    BY <1>2, DropEffect
  <2>2. t <= Most /\ t \in 0 .. Unit * Burst
    BY <2>1, RefillType, Constants
  <2>3. Most' = t
    <3>1. Most' = Least(Unit * Burst, t + (now - now) * (Rate + Err))
      BY <1>2, <2>1 DEF Drop, Most
    <3> QED BY <2>2, <3>1, MostNow DEF TypeOK
  <2> QED BY <1>0, <1>2, <2>2, <2>3 DEF Drop, Paid
<1>3. CASE Tick
  <2>1. (now' - refilledAt) * R = (now - refilledAt) * R + R
    BY <1>3 DEF Tick, TypeOK
  <2>2. Most' \in Int /\ Most' <= Most + R
    <3>1. (now - refilledAt) * R \in Int
      BY DEF TypeOK
    <3>2. tokens' = tokens /\ refilledAt' = refilledAt /\ tokens \in Int
      BY <1>3 DEF Tick, TypeOK, bucket
    <3>3. Most' = Least(Unit * Burst, tokens + ((now - refilledAt) * R + R))
      BY <2>1, <3>2 DEF Most
    <3>. HIDE DEF R
    <3>4. Most = Least(Unit * Burst, tokens + (now - refilledAt) * R)
      BY DEF Most, R
    <3> QED BY <1>0, <3>1, <3>2, <3>3, <3>4 DEF Least
  <2>3. R * (now' - from) = R * (now - from) + R
    BY <1>3 DEF Tick, TypeOK
  <2> QED BY <1>0, <1>3, <2>2, <2>3 DEF Tick, Paid
<1>4. CASE Observe
  <2>1. R * (now' - from') = 0 /\ Unit * admitted' = 0
    BY <1>4 DEF Observe, TypeOK
  <2>2. Most' = Most /\ Most <= Unit * Burst
    <3>1. (now - refilledAt) * R \in Int
      BY DEF TypeOK
    <3> QED BY <1>0, <1>4, <3>1 DEF Observe, Most, Least, bucket, TypeOK
  <2> QED BY <1>0, <2>1, <2>2 DEF Paid
<1>5. CASE UNCHANGED vars
  BY <1>5 DEF Paid, Most, vars, bucket
<1> QED BY <1>1, <1>2, <1>3, <1>4, <1>5 DEF Next

\* However frames and time interleave, a connection has no more frames
\* admitted in any stretch of time than its budget pays for.
THEOREM Rated == Spec => []RateKept
<1>1. Init => Paid
  <2>. SUFFICES ASSUME Init PROVE Paid
    OBVIOUS
  <2>1. Unit * Burst \in Nat
    BY Constants
  <2>2. Unit * admitted = 0 /\ (Rate + Err) * (now - from) = 0
        /\ (now - refilledAt) * (Rate + Err) = 0
    BY BudgetAssumption DEF Init
  <2> QED BY <2>1, <2>2 DEF Init, Paid, Most, Least
<1>2. TypeOK /\ Paid => RateKept
  <2>. SUFFICES ASSUME TypeOK, Paid PROVE RateKept
    OBVIOUS
  <2>1. /\ Unit * admitted \in Int
        /\ (Rate + Err) * (now - from) \in Int
        /\ (now - refilledAt) * (Rate + Err) \in Nat
    BY BudgetAssumption DEF TypeOK
  <2>2. Most \in Nat
    BY <2>1, Constants DEF Most, Least, TypeOK
  <2> QED BY <2>1, <2>2, Constants DEF RateKept, Paid
<1> QED BY <1>1, <1>2, TypeCorrect, PaidStep, PTL DEF Spec

-----------------------------------------------------------------------------
(* The notices *)

LEMMA SpacedStep == TypeOK /\ TypeOK' /\ Spaced /\ [Next]_vars => Spaced'
<1>. SUFFICES ASSUME TypeOK, TypeOK', Spaced, [Next]_vars PROVE Spaced'
  OBVIOUS
<1>. USE BudgetAssumption
<1>1. CASE Admit
  BY <1>1 DEF Admit, Spaced
<1>2. CASE Drop
  <2>1. Window * (notices + 1) = Window * notices + Window
    BY DEF TypeOK
  <2>2. Window * notices \in Int
    BY DEF TypeOK
  <2>3. notices = 0 => Window * notices = 0
    OBVIOUS
  <2>4. CASE NoticeDue
    <3>1. /\ notices' = notices + 1 /\ windowEnd' = now + Window
          /\ now' = now /\ from' = from
      BY <1>2, <2>4 DEF Drop, Notify
    <3>2. Window * notices' = Window * notices + Window
      BY <2>1, <3>1
    <3>3. Window * notices <= now - from
      BY <2>2, <2>3, <2>4 DEF Spaced, TypeOK, NoticeDue
    <3> QED BY <2>2, <3>1, <3>2, <3>3 DEF Spaced, TypeOK
  <2>5. CASE ~NoticeDue
    BY <1>2, <2>5 DEF Drop, Spaced
  <2> QED BY <2>4, <2>5
<1>3. CASE Tick
  <2>1. Window * notices \in Int
    BY DEF TypeOK
  <2> QED BY <1>3, <2>1 DEF Tick, Spaced, TypeOK, bucket
<1>4. CASE Observe
  BY <1>4 DEF Observe, Spaced, TypeOK
<1>5. CASE UNCHANGED vars
  BY <1>5 DEF Spaced, vars, bucket
<1> QED BY <1>1, <1>2, <1>3, <1>4, <1>5 DEF Next

\* A connection over its budget is told so at most once per window.
THEOREM Noticed == Spec => []NoticesSpaced
<1>1. Init => Spaced
  BY BudgetAssumption DEF Init, Spaced
<1>2. TypeOK /\ Spaced => NoticesSpaced
  <2>. SUFFICES ASSUME TypeOK, Spaced PROVE NoticesSpaced
    OBVIOUS
  <2>1. Window * (notices - 1) = Window * notices - Window /\ Window * notices \in Int
    BY BudgetAssumption DEF TypeOK
  <2> QED BY <2>1, BudgetAssumption DEF NoticesSpaced, Spaced, TypeOK
<1> QED BY <1>1, <1>2, TypeCorrect, SpacedStep, PTL DEF Spec

-----------------------------------------------------------------------------
(* The promise of a notice *)

\* Waiting until the promised time brings the missing tokens back, but for
\* what the roundings until then may take.
Promise == promised # 0 => Unit - tokens <= (Rate - Err) * (promised - refilledAt) + Slack

\* A frame dropped after a notice leaves the rest of the wait as it was.
LEMMA PromiseShrinks ==
    ASSUME TypeOK, Promise, promised # 0, NEW t \in Refills, t < Unit
    PROVE  Unit - t <= (Rate - Err) * (promised - now) + Slack
<1>. USE BudgetAssumption
<1>1. /\ t \in Nat /\ t >= tokens + (now - refilledAt) * (Rate - Err)
  BY RefillType, Constants
<1>2. /\ (Rate - Err) * (promised - refilledAt)
           = (Rate - Err) * (promised - now) + (Rate - Err) * (now - refilledAt)
      /\ (now - refilledAt) * (Rate - Err) = (Rate - Err) * (now - refilledAt)
      /\ (Rate - Err) * (promised - now) \in Int
      /\ (Rate - Err) * (now - refilledAt) \in Int
  BY DEF TypeOK
<1> QED BY <1>1, <1>2, Constants DEF Promise, TypeOK

LEMMA PromiseHolds ==
    TypeOK /\ Promise /\ Drop => \/ promised = 0
                                 \/ now < promised
                                 \/ now = promised /\ Unit - tokens' <= Slack
<1>. SUFFICES ASSUME TypeOK, Promise, Drop, promised # 0, now >= promised
     PROVE  now = promised /\ Unit - tokens' <= Slack
  BY DEF TypeOK
<1>. USE BudgetAssumption
<1>1. PICK t \in Refills : t < Unit /\ tokens' = t
  BY DEF Drop
<1>2. Unit - t <= (Rate - Err) * (promised - now) + Slack /\ t \in Nat
  BY <1>1, PromiseShrinks, RefillType
<1>3. CASE now = promised
  <2>1. (Rate - Err) * (promised - now) = 0
    BY <1>3, Constants DEF TypeOK
  <2> QED BY <1>1, <1>2, <1>3, <2>1, Constants
<1>4. CASE now # promised
  <2>1. promised - now <= -1 /\ promised - now \in Int /\ Rate - Err \in Nat
    BY <1>4, Constants DEF TypeOK
  <2>2. (Rate - Err) * (promised - now) <= (Rate - Err) * (-1)
    BY <2>1, Monotone
  <2>3. (Rate - Err) * (-1) = -(Rate - Err) /\ (Rate - Err) * (promised - now) \in Int
    BY <2>1
  <2> QED BY <1>1, <1>2, <2>1, <2>2, <2>3, Constants
<1> QED BY <1>3, <1>4

LEMMA PromiseStep == TypeOK /\ TypeOK' /\ Promise /\ [Next]_vars => Promise'
<1>. SUFFICES ASSUME TypeOK, TypeOK', Promise, [Next]_vars PROVE Promise'
  OBVIOUS
<1>. USE BudgetAssumption
<1>1. CASE Admit
  BY <1>1 DEF Admit, Promise
<1>2. CASE Drop
  <2>1. PICK t \in Refills :
          /\ t \in 0 .. Unit - 1
          /\ tokens' = t /\ refilledAt' = now
          /\ \/ promised' = promised
             \/ \E w \in 1 .. MaxWait : /\ promised' = now + w /\ Rate * w \in Int
                                       /\ Rate * w >= Unit - t - Err
    BY <1>2, DropEffect
  <2>2. CASE promised' = promised
    <3>1. promised # 0 => Unit - t <= (Rate - Err) * (promised - now) + Slack
      BY <2>1, PromiseShrinks
    <3> QED BY <2>1, <2>2, <3>1 DEF Promise
  <2>3. ASSUME NEW w \in 1 .. MaxWait, promised' = now + w,
               Rate * w \in Int, Rate * w >= Unit - t - Err
        PROVE  Promise'
    <3>1. w \in Nat /\ w <= MaxWait
      BY <2>3, Constants
    <3>2. Err * w <= Err * MaxWait /\ (Rate - Err) * w = Rate * w - Err * w
          /\ Err * w \in Int /\ Err * MaxWait \in Int
      BY <3>1, Monotone, Constants
    <3>3. Unit - t <= (Rate - Err) * w + Slack
      BY <2>1, <2>3, <3>2, Constants
    <3>4. (now + w) - now = w
      BY <3>1 DEF TypeOK
    <3> QED BY <2>1, <2>3, <3>3, <3>4 DEF Promise
  <2> QED BY <2>1, <2>2, <2>3
<1>3. CASE Tick
  BY <1>3 DEF Tick, Promise, bucket
<1>4. CASE Observe
  BY <1>4 DEF Observe, Promise, bucket
<1>5. CASE UNCHANGED vars
  BY <1>5 DEF Promise, vars, bucket
<1> QED BY <1>1, <1>2, <1>3, <1>4, <1>5 DEF Next

\* retryAfterMs is true to the millisecond, whatever is dropped in between.
THEOREM Promised == Spec => PromiseKept
<1>1. Init => Promise
  BY DEF Init, Promise
<1>2. TypeOK /\ Promise /\ [Next]_vars => 
        [Drop => \/ promised = 0
                 \/ now < promised
                 \/ now = promised /\ Unit - tokens' <= Slack]_vars
  BY PromiseHolds
<1> QED BY <1>1, <1>2, TypeCorrect, PromiseStep, PTL DEF Spec, PromiseKept

=============================================================================
