--------------------------- MODULE BackoffProofs ----------------------------
(***************************************************************************)
(* BoundedHold and FewAttempts of Backoff, for any intervals, lb-timeout   *)
(* and durations of attempts.  The argument for the first: NextBackOff     *)
(* lets an attempt begin only while the clock is within the limit, the     *)
(* attempt adds at most Longest, and the sleep is at most one and a half   *)
(* times an interval that never shrinks, so that what was drawn before it  *)
(* grew is still covered.  For the second: by attempts made, the interval  *)
(* is the one of Schedule and the clock is not behind it, so that at the   *)
(* end of Schedule the limit is over.                                      *)
(***************************************************************************)
EXTENDS Backoff, TLAPS

(* The clock, by where Commit is.                                          *)
OnTime ==
    /\ pc = "attempt" => elapsed <= MaxElapsedTime
    /\ pc = "sleep" => elapsed <= MaxElapsedTime + Longest
    /\ pc \in {"next", "ok", "stopped"} => elapsed <= Limit

IInv ==
    /\ pc \in {"next", "attempt", "sleep", "ok", "stopped"}
    /\ elapsed \in Nat /\ duration \in Nat
    /\ currentInterval \in Nat /\ currentInterval <= MaxInterval
    /\ duration <= currentInterval + currentInterval \div 2
    /\ MaxElapsedTime # 0 => OnTime

(* Halves of naturals.                                                     *)
LEMMA HalfOf ==
    ASSUME NEW n \in Nat
    PROVE  n \div 2 \in Nat /\ n \div 2 <= n /\ n - n \div 2 \in Nat
  BY SMT

(* The interval never shrinks and stays within MaxInterval.                *)
LEMMA IntervalGrows ==
    ASSUME currentInterval \in Nat, currentInterval <= MaxInterval
    PROVE  /\ incrementCurrentInterval \in Nat
           /\ currentInterval <= incrementCurrentInterval
           /\ incrementCurrentInterval <= MaxInterval
  BY IntervalsAssumption, SMT DEF incrementCurrentInterval, Incremented

(* A half grows with its whole.                                            *)
LEMMA HalfMonotone ==
    ASSUME NEW m \in Nat, NEW n \in Nat, m <= n
    PROVE  m \div 2 <= n \div 2
  BY SMT

(* Both sides of a sum may grow.                                           *)
LEMMA SumGrows ==
    ASSUME NEW d \in Nat, NEW m \in Nat, NEW n \in Nat, NEW h \in Nat, NEW k \in Nat,
           d <= m + h, m <= n, h <= k
    PROVE  d <= n + k
  BY SMT

(* Counting up to Horizon never overstates.                                *)
LEMMA CappedBelow ==
    ASSUME NEW n \in Nat
    PROVE  Capped(n) \in Nat /\ Capped(n) <= n
  BY TimesAssumption, SMT DEF Capped

LEMMA InitIInv == Init => IInv
  <1> SUFFICES ASSUME Init PROVE IInv
    OBVIOUS
  <1>1. InitialInterval \div 2 \in Nat
    BY IntervalsAssumption, HalfOf
  <1> QED
    BY <1>1, IntervalsAssumption, TimesAssumption DEF Init, IInv, OnTime, Limit

LEMMA NextIInv == IInv /\ [Next]_backoffVars => IInv'
  <1> SUFFICES ASSUME IInv, [Next]_backoffVars PROVE IInv'
    OBVIOUS
  <1>h. currentInterval \div 2 \in Nat
    BY HalfOf DEF IInv
  <1>1. CASE Stop
    BY <1>1, <1>h DEF Stop, IInv, OnTime, Limit
  <1>2. CASE NextBackOff
    <2>1. /\ currentInterval' \in Nat
          /\ currentInterval <= currentInterval'
          /\ currentInterval' <= MaxInterval
      BY <1>2, IntervalGrows DEF NextBackOff, IInv
    <2>2. /\ currentInterval' \div 2 \in Nat
          /\ currentInterval \div 2 <= currentInterval' \div 2
      BY <2>1, HalfOf, HalfMonotone DEF IInv
    <2>3. /\ duration' \in Nat
          /\ duration' <= currentInterval + currentInterval \div 2
      BY <1>2, <1>h, HalfOf DEF NextBackOff, Randomized, Shortest, IInv
    <2>4. duration' <= currentInterval' + currentInterval' \div 2
      BY <1>h, <2>1, <2>2, <2>3, SumGrows DEF IInv
    <2>5. MaxElapsedTime # 0 => elapsed <= MaxElapsedTime
      BY <1>2, TimesAssumption DEF NextBackOff, Over, IInv
    <2> QED
      BY <1>2, <2>1, <2>3, <2>4, <2>5 DEF NextBackOff, IInv, OnTime
  <1>3. CASE Attempt
    <2>1. PICK time \in Times : elapsed' = Capped(elapsed + time)
      BY <1>3 DEF Attempt
    <2>2. time \in Nat /\ time <= Longest
      BY TimesAssumption
    <2>3. elapsed' \in Nat /\ elapsed' <= elapsed + time
      BY <2>1, <2>2, CappedBelow DEF IInv
    <2>4. MaxElapsedTime # 0 => elapsed' <= MaxElapsedTime + Longest
      BY <1>3, <2>2, <2>3, TimesAssumption DEF Attempt, IInv, OnTime
    <2>5. MaxElapsedTime # 0 => elapsed' <= Limit'
      BY <1>3, <1>h, <2>3, <2>4, TimesAssumption DEF Attempt, IInv, Limit
    <2> QED
      BY <1>3, <2>3, <2>4, <2>5 DEF Attempt, IInv, OnTime
  <1>4. CASE Sleep
    <2>1. elapsed' \in Nat /\ elapsed' <= elapsed + duration
      BY <1>4, CappedBelow DEF Sleep, IInv
    <2>2. MaxElapsedTime # 0 => elapsed' <= Limit'
      BY <1>4, <1>h, <2>1, TimesAssumption DEF Sleep, IInv, OnTime, Limit
    <2> QED
      BY <1>4, <2>1, <2>2 DEF Sleep, IInv, OnTime
  <1>5. CASE UNCHANGED backoffVars
    BY <1>5 DEF backoffVars, IInv, OnTime, Limit
  <1> QED
    BY <1>1, <1>2, <1>3, <1>4, <1>5 DEF Next

LEMMA IInvBounds == IInv => BoundedHold
  <1> SUFFICES ASSUME IInv, MaxElapsedTime # 0 PROVE elapsed <= Limit
    BY DEF BoundedHold
  <1>1. currentInterval \div 2 \in Nat
    BY HalfOf DEF IInv
  <1> QED
    BY <1>1, TimesAssumption DEF IInv, OnTime, Limit

(* One Commit holds the engine's mutex no longer than lb-timeout, one      *)
(* attempt and one sleep (engine.go, Commit), whatever the backoff draws.  *)
THEOREM CommitBounded == Spec => []BoundedHold
  <1>1. Init => IInv
    BY InitIInv
  <1>2. IInv /\ [Next]_backoffVars => IInv'
    BY NextIInv
  <1>3. IInv => BoundedHold
    BY IInvBounds
  <1> QED
    BY <1>1, <1>2, <1>3, PTL DEF Spec

-----------------------------------------------------------------------------
(***************************************************************************)
(* FewAttempts.  The clock is ahead of the schedule, or at the horizon.    *)
(***************************************************************************)
Late(time) == elapsed >= time \/ elapsed = Horizon

Paced ==
    /\ tries \in 0..MaxAttempts
    /\ pc = "next" => /\ currentInterval = Schedule[tries].interval
                      /\ Late(Schedule[tries].slept)
    /\ pc = "attempt" => /\ tries < MaxAttempts
                         /\ currentInterval = Schedule[tries + 1].interval
                         /\ duration >= Shortest(Schedule[tries].interval)
                         /\ Late(Schedule[tries].slept)
    /\ pc = "sleep" => /\ tries > 0
                       /\ currentInterval = Schedule[tries].interval
                       /\ duration >= Shortest(Schedule[tries - 1].interval)
                       /\ Late(Schedule[tries - 1].slept)

PacedInv == IInv /\ (MaxElapsedTime # 0 => Paced)

(* Time goes on, and a clock that is late stays so.                        *)
LEMMA LateGrows ==
    ASSUME NEW now \in Nat, NEW time \in Nat, NEW d \in Nat, NEW least \in Nat,
           now >= time \/ now = Horizon, d >= least
    PROVE  Capped(now + d) >= time + least \/ Capped(now + d) = Horizon
  BY TimesAssumption, SMT DEF Capped

(* What the schedule says of one attempt more.                             *)
LEMMA ScheduleStep ==
    ASSUME NEW n \in 0..MaxAttempts
    PROVE  /\ Schedule[n].interval \in Nat /\ Schedule[n].slept \in Nat
           /\ Shortest(Schedule[n].interval) \in Nat
           /\ n < MaxAttempts =>
                 /\ n + 1 \in 0..MaxAttempts
                 /\ Schedule[n + 1].interval = Incremented(Schedule[n].interval)
                 /\ Schedule[n + 1].slept
                       = Schedule[n].slept + Shortest(Schedule[n].interval)
  <1>1. Schedule[n] \in [interval : Nat, slept : Nat]
    BY ScheduleAssumption
  <1>2. Shortest(Schedule[n].interval) \in Nat
    BY <1>1, HalfOf DEF Shortest
  <1>3. ASSUME n < MaxAttempts
        PROVE  n + 1 \in 1..MaxAttempts /\ n + 1 \in 0..MaxAttempts /\ (n + 1) - 1 = n
    BY <1>3, ScheduleAssumption
  <1>4. ASSUME n < MaxAttempts
        PROVE  /\ Schedule[n + 1].interval = Incremented(Schedule[n].interval)
               /\ Schedule[n + 1].slept
                     = Schedule[n].slept + Shortest(Schedule[n].interval)
    <2>1. \A k \in 1..MaxAttempts :
             /\ Schedule[k].interval = Incremented(Schedule[k - 1].interval)
             /\ Schedule[k].slept
                   = Schedule[k - 1].slept + Shortest(Schedule[k - 1].interval)
      BY ScheduleAssumption
    <2> QED
      BY <1>3, <1>4, <2>1
  <1> QED
    BY <1>1, <1>2, <1>3, <1>4

(* What NextBackOff draws is no shorter than the shortest.                 *)
LEMMA DrawnLong ==
    ASSUME NEW n \in Nat, NEW d \in Randomized(n)
    PROVE  d \in Nat /\ d >= Shortest(n)
  <1>1. n \div 2 \in Nat /\ n \div 2 <= n /\ n - n \div 2 \in Nat
    BY HalfOf
  <1> QED
    BY <1>1 DEF Randomized, Shortest

(* When the schedule has run out, so has lb-timeout.                       *)
LEMMA ScheduleEnds ==
    ASSUME IInv, MaxElapsedTime # 0, Late(Schedule[MaxAttempts].slept)
    PROVE  Over
  <1>1. MaxAttempts \in 0..MaxAttempts
    BY ScheduleAssumption
  <1>2. Schedule[MaxAttempts].slept \in Nat
    BY <1>1, ScheduleStep
  <1>3. Schedule[MaxAttempts].slept > MaxElapsedTime /\ MaxElapsedTime < Horizon
    BY ScheduleAssumption
  <1> QED
    BY <1>2, <1>3, TimesAssumption DEF IInv, Late, Over

LEMMA InitPaced == Init => Paced
  BY ScheduleAssumption DEF Init, Paced, Late

LEMMA NextPaced ==
    ASSUME IInv, MaxElapsedTime # 0, Paced, [Next]_backoffVars
    PROVE  Paced'
  <1>0. tries \in 0..MaxAttempts /\ tries \in Nat /\ MaxAttempts \in Nat
    BY ScheduleAssumption DEF Paced
  <1>1. CASE Stop
    BY <1>0, <1>1 DEF Stop, Paced
  <1>2. CASE NextBackOff
    <2>1. Late(Schedule[tries].slept) /\ currentInterval = Schedule[tries].interval
      BY <1>2 DEF NextBackOff, Paced
    <2>2. tries < MaxAttempts
      <3> SUFFICES ASSUME tries = MaxAttempts PROVE FALSE
        BY <1>0
      <3> QED
        BY <1>2, <2>1, ScheduleEnds DEF NextBackOff
    <2>3. duration' >= Shortest(Schedule[tries].interval)
      BY <1>2, <2>1, DrawnLong DEF NextBackOff, IInv
    <2>4. currentInterval' = Schedule[tries + 1].interval
      BY <1>0, <1>2, <2>1, <2>2, ScheduleStep DEF NextBackOff, incrementCurrentInterval
    <2>5. pc' = "attempt" /\ elapsed' = elapsed /\ tries' = tries
      BY <1>2 DEF NextBackOff
    <2> QED
      BY <1>0, <2>1, <2>2, <2>3, <2>4, <2>5 DEF Paced, Late
  <1>3. CASE Attempt
    <2>1. PICK time \in Times : elapsed' = Capped(elapsed + time)
      BY <1>3 DEF Attempt
    <2>2. time \in Nat
      BY TimesAssumption
    <2>3. /\ tries < MaxAttempts /\ Late(Schedule[tries].slept)
          /\ currentInterval = Schedule[tries + 1].interval
          /\ duration >= Shortest(Schedule[tries].interval)
      BY <1>3 DEF Attempt, Paced
    <2>4. Schedule[tries].slept \in Nat
      BY <1>0, ScheduleStep
    <2>5. elapsed' >= Schedule[tries].slept \/ elapsed' = Horizon
      <3>1. PICK least \in Nat : least = 0
        OBVIOUS
      <3>2. \/ Capped(elapsed + time) >= Schedule[tries].slept + least
            \/ Capped(elapsed + time) = Horizon
        <4>1. elapsed \in Nat /\ (elapsed >= Schedule[tries].slept \/ elapsed = Horizon)
          BY <2>3 DEF IInv, Late
        <4>2. time >= least
          BY <2>2, <3>1
        <4> QED
          BY <2>2, <2>4, <4>1, <4>2, LateGrows
      <3> QED
        BY <2>1, <2>4, <3>1, <3>2
    <2>6. /\ tries' = tries + 1 /\ pc' \in {"ok", "sleep"}
          /\ currentInterval' = currentInterval /\ duration' = duration
      BY <1>0, <1>3, <2>3 DEF Attempt
    <2>7. tries' \in 0..MaxAttempts /\ tries' > 0 /\ tries' - 1 = tries
      BY <1>0, <2>3, <2>6
    <2> QED
      BY <2>3, <2>5, <2>6, <2>7 DEF Paced, Late
  <1>4. CASE Sleep
    <2>1. /\ tries > 0 /\ currentInterval = Schedule[tries].interval
          /\ duration >= Shortest(Schedule[tries - 1].interval)
          /\ Late(Schedule[tries - 1].slept)
      BY <1>4 DEF Sleep, Paced
    <2>2. PICK n : n = tries - 1
      OBVIOUS
    <2>3. n \in 0..MaxAttempts /\ n < MaxAttempts /\ n + 1 = tries
      BY <1>0, <2>1, <2>2
    <2>4. /\ Schedule[n].slept \in Nat /\ Shortest(Schedule[n].interval) \in Nat
          /\ Schedule[tries].slept = Schedule[n].slept + Shortest(Schedule[n].interval)
      BY <2>3, ScheduleStep
    <2>5. \/ Capped(elapsed + duration)
                >= Schedule[n].slept + Shortest(Schedule[n].interval)
          \/ Capped(elapsed + duration) = Horizon
      BY <2>1, <2>2, <2>4, LateGrows DEF IInv, Late
    <2>6. /\ elapsed' = Capped(elapsed + duration) /\ pc' = "next"
          /\ currentInterval' = currentInterval /\ tries' = tries
      BY <1>4 DEF Sleep
    <2> QED
      BY <1>0, <2>1, <2>4, <2>5, <2>6 DEF Paced, Late
  <1>5. CASE UNCHANGED backoffVars
    BY <1>5 DEF backoffVars, Paced, Late
  <1> QED
    BY <1>1, <1>2, <1>3, <1>4, <1>5 DEF Next

(* One Commit makes no more attempts than the shortest sleeps leave room   *)
(* for before lb-timeout is up (backoff's NextBackOff), for any intervals, *)
(* lb-timeout and durations of attempts.                                   *)
THEOREM AttemptsBounded == Spec => []FewAttempts
  <1>1. Init => PacedInv
    BY InitIInv, InitPaced DEF PacedInv
  <1>2. PacedInv /\ [Next]_backoffVars => PacedInv'
    BY NextIInv, NextPaced DEF PacedInv
  <1>3. PacedInv => FewAttempts
    BY ScheduleAssumption DEF PacedInv, Paced, FewAttempts
  <1> QED
    BY <1>1, <1>2, <1>3, PTL DEF Spec

=============================================================================
