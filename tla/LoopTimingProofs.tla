-------------------------- MODULE LoopTimingProofs --------------------------
(***************************************************************************)
(* The samples of control_loop_run are never early and do not drift, for   *)
(* every period below a second and whatever the work and the wake-ups take.*)
(***************************************************************************)
EXTENDS LoopTiming, TLAPS

\* The carry of a timespec loses nothing and keeps it normalised.
LEMMA AfterAdds ==
  ASSUME NEW t \in Timespec, NEW n \in Nat, n < Nanos
  PROVE  /\ After(t, n) \in Timespec
         /\ (After(t, n).sec - t.sec) * 1000000000 + After(t, n).nsec = t.nsec + n
  BY SMT DEF After, Timespec, Nanos

\* What a truncated quotient says of the number.
LEMMA TruncBounds ==
  ASSUME NEW n \in Int
  PROVE  /\ Trunc(n) \in Int
         /\ n - 1000 < Trunc(n) * 1000 /\ Trunc(n) * 1000 < n + 1000
         /\ n >= 0 => Trunc(n) * 1000 <= n
         /\ n <= 0 => Trunc(n) * 1000 >= n
  BY SMT DEF Trunc

\* The sign of timespec_diff_us: positive only if end is later than start, and
\* not positive only if it is later by less than a microsecond.
LEMMA DiffSign ==
  ASSUME NEW end \in Timespec, NEW start \in Timespec
  PROVE  LET ns == (end.sec - start.sec) * 1000000000 + (end.nsec - start.nsec)
         IN  /\ DiffUs(end, start) > 0 => ns > 0
             /\ ~(DiffUs(end, start) > 0) => ns <= 999
<1> DEFINE d == end.nsec - start.nsec
           s == end.sec - start.sec
<1>1. /\ d \in Int /\ s \in Int /\ -1000000000 < d /\ d < 1000000000
      BY SMT DEF Timespec, Nanos
<1>2. DiffUs(end, start) = s * 1000000 + Trunc(d)
      BY DEF DiffUs
<1> HIDE DEF d, s
<1>3. s * 1000000 + Trunc(d) > 0 => s * 1000000000 + d > 0
      BY SMT, <1>1, TruncBounds
<1>4. ~(s * 1000000 + Trunc(d) > 0) => s * 1000000000 + d <= 999
      BY SMT, <1>1, TruncBounds
<1> QED BY SMT, <1>2, <1>3, <1>4 DEF d, s

\* The nanoseconds from u to t, and from loop_start to the time the present
\* sample is due.
Since(t, u) == (t.sec - u.sec) * Nanos + (t.nsec - u.nsec)
Due == (sampleIndex * Period) * 1000

LEMMA SinceAfter ==
  ASSUME NEW t \in Timespec, NEW u \in Timespec, NEW n \in Nat, n < Nanos
  PROVE  After(t, n) \in Timespec /\ Since(After(t, n), u) = Since(t, u) + n
<1>1. PICK a \in Timespec : /\ a = After(t, n)
                            /\ (a.sec - t.sec) * 1000000000 + a.nsec = t.nsec + n
      BY SMT, AfterAdds
<1>2. Since(a, u) = Since(t, u) + n
      BY SMT, <1>1 DEF Since, Timespec, Nanos
<1> QED BY <1>1, <1>2

LEMMA SinceSelf == ASSUME NEW t \in Timespec PROVE Since(t, t) = 0
  BY SMT DEF Since, Timespec, Nanos

\* The lateness test in these terms.
LEMMA LateTest ==
  ASSUME NEW t \in Timespec, NEW u \in Timespec, NEW d \in Timespec
  PROVE  /\ DiffUs(t, d) > 0 => Since(t, u) > Since(d, u)
         /\ ~(DiffUs(t, d) > 0) => Since(t, u) <= Since(d, u) + 999
  BY SMT, DiffSign DEF Since, Timespec, Nanos

LEMMA WokenBounds ==
  ASSUME NEW t \in Timespec, NEW u \in Timespec, NEW d \in Timespec,
         Since(t, u) <= Since(d, u) + 999
  PROVE  LET woken == IF AtOrAfter(t, d) THEN t ELSE d
         IN  Since(d, u) <= Since(woken, u) /\ Since(woken, u) <= Since(d, u) + 999
  BY SMT DEF Since, AtOrAfter, Timespec, Nanos

LEMMA LagIsSince ==
  ASSUME TypeOK, NEW t \in Timespec
  PROVE  /\ Since(t, loopStart) \in Int /\ Due \in Int /\ Due >= 0
         /\ Lag(t) = Since(t, loopStart) - Due
<1>1. sampleIndex * Period \in Nat
      BY PeriodAssumption DEF TypeOK
<1>2. loopStart \in Timespec
      BY DEF TypeOK
<1> QED BY SMT, <1>1, <1>2 DEF Lag, Since, Due, Timespec, Nanos

\* Where the deadline is, and how far the clock may have run, in each state of
\* the loop: a sleep begins with less than a microsecond of lateness, and a
\* sample with none of it negative.
TimingInv ==
  /\ TypeOK
  /\ lpc \in {"test", "sleep"} => Since(deadline, loopStart) = Due
  /\ lpc = "work" => Since(deadline, loopStart) = Due + Period * 1000
  /\ lpc \in {"test", "work"} => Since(now, loopStart) >= Due
  /\ lpc \in {"test", "work"} /\ calm => Since(now, loopStart) <= Due + latency + 999
  /\ lpc = "sleep" => Since(now, loopStart) <= Due + 999

LEMMA TimingInit == Init => TimingInv
<1> SUFFICES ASSUME Init PROVE TimingInv
    OBVIOUS
<1>1. TypeOK
      BY SMT, StartAssumption DEF Init, TypeOK, Nanos
<1>2. Since(now, loopStart) = 0 /\ Since(deadline, loopStart) = 0
      BY <1>1, SinceSelf DEF Init, TypeOK
<1>3. Due = 0
      BY SMT, PeriodAssumption DEF Init, Due
<1> QED BY <1>1, <1>2, <1>3 DEF Init, TimingInv

\* One more sample is one period more.
LEMMA NextDue ==
  ASSUME NEW n \in Nat
  PROVE  ((n + 1) * Period) * 1000 = (n * Period) * 1000 + Period * 1000
  BY PeriodAssumption

LEMMA TimingStep == TimingInv /\ [Next]_vars => TimingInv'
<1> SUFFICES ASSUME TimingInv, [Next]_vars PROVE TimingInv'
    OBVIOUS
<1> USE DEF TimingInv
<1>t. /\ now \in Timespec /\ loopStart \in Timespec /\ deadline \in Timespec
      /\ sampleIndex \in Nat /\ latency \in Nat /\ latency < Nanos /\ calm \in BOOLEAN
      BY DEF TypeOK
<1>d. /\ Due \in Int /\ Since(now, loopStart) \in Int /\ Since(deadline, loopStart) \in Int
      /\ Period * 1000 \in Nat /\ Period * 1000 < Nanos
      BY SMT, <1>t, LagIsSince, PeriodAssumption DEF Nanos
<1>1. ASSUME BeginSample PROVE TimingInv'
  <2>1. AddUs(deadline, Period) \in Timespec
        /\ Since(AddUs(deadline, Period), loopStart) = Since(deadline, loopStart) + Period * 1000
        BY <1>t, <1>d, SinceAfter DEF AddUs
  <2>2. /\ deadline' \in Timespec /\ Since(deadline, loopStart)' = Since(deadline, loopStart) + Period * 1000
        /\ Due' = Due /\ Since(now, loopStart)' = Since(now, loopStart)
        BY <1>1, <2>1 DEF BeginSample, Due
  <2>3. TypeOK'
        BY <1>1, <2>2 DEF BeginSample, TypeOK
  <2> QED BY <1>1, <1>t, <1>d, <2>2, <2>3 DEF BeginSample
<1>2. ASSUME EndLoop PROVE TimingInv'
  <2>1. TypeOK' /\ lpc' = "done"
        BY <1>2 DEF EndLoop, TypeOK
  <2> QED BY <2>1
<1>3. ASSUME Work PROVE TimingInv'
  <2> PICK w \in WorkTimes :
         /\ now' = After(now, w)
         /\ lpc' = IF Late(After(now, w)) THEN "test" ELSE "sleep"
         /\ calm' = (calm /\ latency + w <= Period * 1000)
      BY <1>3 DEF Work
  <2>1. w \in Nat /\ w < Nanos
        BY DurationAssumption
  <2>a. loopStart' = loopStart /\ deadline' = deadline
        BY <1>3 DEF Work
  <2>b. /\ After(now, w) \in Timespec
        /\ Since(After(now, w), loopStart) = Since(now, loopStart) + w
        BY <1>t, <2>1, SinceAfter
  <2>2. now' \in Timespec /\ Since(now, loopStart)' = Since(now, loopStart) + w
        BY <2>a, <2>b
  <2>3. Due' = Due + Period * 1000 /\ Since(deadline, loopStart)' = Since(deadline, loopStart)
        BY <1>3, <1>t, NextDue DEF Work, Due
  <2>4. /\ lpc' = "test" => Since(now, loopStart)' > Since(deadline, loopStart)'
        /\ lpc' = "sleep" => Since(now, loopStart)' <= Since(deadline, loopStart)' + 999
        BY <1>3, <1>t, <2>2, LateTest DEF Work, Late
  <2>5. TypeOK'
        BY SMT, <1>3, <2>2 DEF Work, TypeOK, Nanos
  <2>6. lpc = "work" /\ latency' = 0 /\ lpc' \in {"test", "sleep"}
        BY <1>3 DEF Work
  <2>c. calm' => calm /\ latency + w <= Period * 1000
        OBVIOUS
  <2>7. lpc' = "test" /\ calm' => Since(now, loopStart)' <= Due' + latency' + 999
    <3> SUFFICES ASSUME calm'
                 PROVE  Since(now, loopStart)' <= Due' + latency' + 999
        OBVIOUS
    <3>1. latency + w <= Period * 1000 /\ Since(now, loopStart) <= Due + latency + 999
        BY <2>c, <2>6
    <3> QED BY <1>t, <1>d, <2>1, <2>2, <2>3, <2>6, <3>1
  <2> QED BY <1>d, <2>1, <2>2, <2>3, <2>4, <2>5, <2>6, <2>7
<1>4. ASSUME Sleep PROVE TimingInv'
  <2> DEFINE woken == IF AtOrAfter(now, deadline) THEN now ELSE deadline
  <2> PICK l \in Latencies : latency' = l /\ now' = After(woken, l)
      BY <1>4 DEF Sleep
  <2>1. l \in Nat /\ l < Nanos /\ woken \in Timespec
        BY <1>t, DurationAssumption
  <2>2. Due <= Since(woken, loopStart) /\ Since(woken, loopStart) <= Due + 999
        BY <1>4, <1>t, WokenBounds DEF Sleep
  <2> HIDE DEF woken
  <2>a. loopStart' = loopStart
        BY <1>4 DEF Sleep
  <2>b. /\ After(woken, l) \in Timespec
        /\ Since(After(woken, l), loopStart) = Since(woken, loopStart) + l
        BY <1>t, <2>1, SinceAfter
  <2>3. now' \in Timespec /\ Since(now, loopStart)' = Since(woken, loopStart) + l
        BY <2>a, <2>b
  <2>4. Due' = Due /\ Since(deadline, loopStart)' = Since(deadline, loopStart)
        BY <1>4 DEF Sleep, Due
  <2>5. TypeOK'
        BY <1>4, <2>1, <2>3 DEF Sleep, TypeOK
  <2>6. Since(woken, loopStart) \in Int
        BY <2>1, LagIsSince
  <2> QED BY <1>4, <1>d, <2>1, <2>2, <2>3, <2>4, <2>5, <2>6 DEF Sleep
<1>5. ASSUME UNCHANGED vars PROVE TimingInv'
      BY <1>5 DEF vars, TypeOK, Due
<1> QED BY <1>1, <1>2, <1>3, <1>4, <1>5 DEF Next, Done

LEMMA TimingHolds == Spec => []TimingInv
<1> QED BY TimingInit, TimingStep, PTL DEF Spec

\* No sample of the control loop starts before its scheduled time.
THEOREM LoopNeverEarly == Spec => []NeverEarly
<1>1. TimingInv => NeverEarly
  <2> SUFFICES ASSUME TimingInv, lpc = "work" PROVE Lag(now) >= 0
      BY DEF NeverEarly
  <2> QED BY LagIsSince DEF TimingInv, TypeOK
<1> QED BY <1>1, TimingHolds, PTL

\* Work times and wake-up latencies do not accumulate while samples fit.
THEOREM LoopNoDrift == Spec => []NoDrift
<1>1. TimingInv => NoDrift
  <2> SUFFICES ASSUME TimingInv, lpc = "work", calm PROVE Lag(now) <= latency + 999
      BY DEF NoDrift
  <2> QED BY LagIsSince DEF TimingInv, TypeOK
<1> QED BY <1>1, TimingHolds, PTL

(***************************************************************************)
(* The hold schedule                                                       *)
(***************************************************************************)
\* Quotient and remainder.
LEMMA Turns ==
  ASSUME NEW e \in Nat, NEW c \in Nat \ {0}
  PROVE  /\ (e \div c) \in Nat /\ (e % c) \in Nat /\ (e % c) < c
         /\ e = (e \div c) * c + (e % c)
  OBVIOUS

LEMMA TimesOrder ==
  ASSUME NEW m \in Int, NEW n \in Int, NEW p \in Nat, m <= n
  PROVE  m * p <= n * p
<1>1. (n - m) * p >= 0
  OBVIOUS
<1>2. (n - m) * p = n * p - m * p
  OBVIOUS
<1> QED
  BY <1>1, <1>2

\* Between two multiples of p that follow one another there is no third.
LEMMA NoneBetween ==
  ASSUME NEW m \in Int, NEW n \in Int, NEW p \in Nat, m * p < n * p + p
  PROVE  m <= n
<1> SUFFICES ASSUME n + 1 <= m PROVE FALSE
  OBVIOUS
<1>1. (n + 1) * p <= m * p
  BY TimesOrder
<1>2. (n + 1) * p = n * p + p
  OBVIOUS
<1> QED
  BY <1>1, <1>2

\* If c * j <= e < c * j + c then j is the quotient of e.
LEMMA QuotientIs ==
  ASSUME NEW e \in Nat, NEW c \in Nat \ {0}, NEW j \in Nat,
         j * c <= e, e < j * c + c
  PROVE  e % c = e - j * c
<1> DEFINE k == e \div c
           t == e % c
<1>1. k \in Nat /\ t \in Nat /\ t < c /\ e = k * c + t
  BY Turns
<1> HIDE DEF k, t
<1>2. j * c \in Int /\ k * c \in Int
  BY <1>1
<1>3. k <= j
  BY <1>1, <1>2, NoneBetween
<1>4. j <= k
  BY <1>1, <1>2, NoneBetween
<1>5. j = k
  BY <1>1, <1>3, <1>4
<1>6. t = e - j * c
  BY <1>1, <1>2, <1>5
<1> QED
  BY <1>6 DEF t

\* A repeating schedule of a and then b periods, c in all: any time within the
\* period of sample n has the phase of the time the sample is due.
LEMMA FirstPhaseBegun ==
  ASSUME NEW p \in Nat \ {0}, NEW a \in Nat \ {0}, NEW b \in Nat \ {0},
         NEW n \in Nat, NEW e \in Nat, n * p <= e, e < n * p + p,
         NEW c \in Nat \ {0}, c = (a + b) * p,
         (e % c) < a * p
  PROVE  \E k \in 0 .. n : k * c <= n * p /\ n * p < k * c + a * p
<1>1. n * p \in Nat /\ a * p \in Nat
  OBVIOUS
<1> DEFINE k == e \div c
           t == e % c
<1>2. k \in Nat /\ t \in Nat /\ t < c /\ e = k * c + t /\ t < a * p
  BY Turns
<1> HIDE DEF k, t
<1>3. k * c = (k * (a + b)) * p /\ k * (a + b) \in Nat
  BY <1>2
<1>4. k * (a + b) <= n
  BY <1>2, <1>3, <1>1, NoneBetween
<1>5. k * c <= n * p
  BY <1>3, <1>4, TimesOrder
<1>6. k <= k * (a + b)
  BY <1>2, 1 <= a + b, TimesOrder
<1>7. n * p < k * c + a * p
  BY <1>2, <1>3, <1>1
<1> QED
  BY <1>2, <1>3, <1>4, <1>5, <1>6, <1>7

LEMMA FirstPhaseLasts ==
  ASSUME NEW p \in Nat \ {0}, NEW a \in Nat \ {0}, NEW b \in Nat \ {0},
         NEW n \in Nat, NEW e \in Nat, n * p <= e, e < n * p + p,
         NEW c \in Nat \ {0}, c = (a + b) * p,
         NEW k \in 0 .. n, k * c <= n * p, n * p < k * c + a * p
  PROVE  (e % c) < a * p
<1>1. n * p \in Nat /\ a * p \in Nat
  OBVIOUS
<1>2. c = a * p + b * p /\ b * p \in Nat
  OBVIOUS
<1>3. k \in Nat /\ k * c \in Nat
  OBVIOUS
<1>4. k * c + a * p = (k * (a + b) + a) * p /\ k * (a + b) + a \in Nat
  BY <1>3
<1>5. n + 1 <= k * (a + b) + a
  <2> SUFFICES ASSUME k * (a + b) + a <= n PROVE FALSE
    BY <1>4
  <2>1. (k * (a + b) + a) * p <= n * p
    BY <1>4, TimesOrder
  <2> QED
    BY <2>1, <1>3, <1>4, <1>1
<1>6. (n + 1) * p <= k * c + a * p
  BY <1>4, <1>5, TimesOrder
<1>7. e < k * c + a * p
  BY <1>6, <1>3, <1>1
<1>8. k * c <= e /\ e < k * c + c
  BY <1>3, <1>7, <1>1, <1>2
<1>9. e % c = e - k * c
  BY <1>3, <1>8, QuotientIs
<1> QED
  BY <1>3, <1>7, <1>9, <1>1

\* The microseconds the code computes lie in the period of the sample.
LEMMA ElapsedInPeriod ==
  ASSUME TimingInv, lpc = "work", OnSchedule
  PROVE  /\ DiffUs(now, loopStart) \in Nat
         /\ sampleIndex * Period <= DiffUs(now, loopStart)
         /\ DiffUs(now, loopStart) < sampleIndex * Period + Period
<1> DEFINE d == now.nsec - loopStart.nsec
           s == now.sec - loopStart.sec
           n == sampleIndex * Period
           ns == Since(now, loopStart)
<1>1. /\ now \in Timespec /\ loopStart \in Timespec /\ sampleIndex \in Nat
      /\ latency \in Nat /\ Period \in Nat
  BY PeriodAssumption DEF TimingInv, TypeOK
<1>2. d \in Int /\ s \in Int /\ n \in Nat
  BY <1>1 DEF Timespec
<1>3. ns = s * 1000000000 + d /\ Due = n * 1000
  BY DEF Since, Due, Nanos
<1>4. Due <= ns /\ ns <= Due + latency + 999
  BY DEF TimingInv, OnSchedule
<1>5. DiffUs(now, loopStart) = s * 1000000 + Trunc(d)
  BY DEF DiffUs
<1> HIDE DEF d, s, n, ns
<1>6. Trunc(d) \in Int /\ d - 1000 < Trunc(d) * 1000 /\ Trunc(d) * 1000 < d + 1000
  BY <1>2, TruncBounds
<1>7. DiffUs(now, loopStart) \in Nat /\ n <= DiffUs(now, loopStart)
  BY <1>1, <1>2, <1>3, <1>4, <1>5, <1>6
<1>8. DiffUs(now, loopStart) < n + Period
  BY <1>1, <1>2, <1>3, <1>4, <1>5, <1>6 DEF OnSchedule
<1> QED
  BY <1>7, <1>8 DEF n

\* The hold schedule switches at the sample that is due at the switch.
THEOREM LoopSwitchesOnTime == Spec => []SwitchesOnTime
<1>1. TimingInv => SwitchesOnTime
  <2> SUFFICES ASSUME TimingInv, lpc = "work", OnSchedule, Hold1 > 0, Hold2 > 0,
                      Hold1 % Period = 0, Hold2 % Period = 0
               PROVE  HoldPhase = 1 <=> InFirstHold(sampleIndex)
    BY DEF SwitchesOnTime
  <2> DEFINE e == DiffUs(now, loopStart)
             n == sampleIndex
             a == Hold1 \div Period
             b == Hold2 \div Period
             c == Hold1 + Hold2
  <2>1. e \in Nat /\ n * Period <= e /\ e < n * Period + Period
    BY ElapsedInPeriod
  <2>2. n \in Nat /\ Period \in Nat \ {0} /\ Hold1 \in Nat \ {0} /\ Hold2 \in Nat \ {0}
        /\ Repeat \in BOOLEAN
    BY PeriodAssumption, HoldAssumption DEF TimingInv, TypeOK
  <2>3. a \in Nat /\ b \in Nat /\ Hold1 = a * Period /\ Hold2 = b * Period
    BY <2>2, Turns
  <2> HIDE DEF e, n, a, b
  <2>4. a # 0 /\ b # 0
    BY <2>2, <2>3
  <2>5. c \in Nat \ {0} /\ c = (a + b) * Period
    BY <2>2, <2>3
  <2>6. HoldPhaseAt(e) = 1 <=> (IF Repeat THEN e % c ELSE e) < Hold1
    BY <2>2 DEF HoldPhaseAt
  <2> HIDE DEF c
  <2>7. InFirstHold(n) <=> \E k \in 0 .. n :
          /\ k = 0 \/ Repeat
          /\ k * c <= n * Period /\ n * Period < k * c + Hold1
    BY DEF InFirstHold, c
  <2>8. CASE Repeat
    <3>1. (e % c) < a * Period
            <=> \E k \in 0 .. n : k * c <= n * Period /\ n * Period < k * c + a * Period
      <4>1. a \in Nat \ {0} /\ b \in Nat \ {0}
        BY <2>3, <2>4
      <4>2. ASSUME (e % c) < a * Period
            PROVE  \E k \in 0 .. n : k * c <= n * Period /\ n * Period < k * c + a * Period
        BY <4>1, <4>2, <2>1, <2>2, <2>5, FirstPhaseBegun
      <4>3. ASSUME NEW k \in 0 .. n, k * c <= n * Period, n * Period < k * c + a * Period
            PROVE  (e % c) < a * Period
        BY <4>1, <4>3, <2>1, <2>2, <2>5, FirstPhaseLasts
      <4> QED
        BY <4>2, <4>3
    <3> QED
      BY <2>3, <2>6, <2>7, <2>8, <3>1 DEF HoldPhase, e, n
  <2>9. CASE ~Repeat
    <3>1. e < a * Period <=> n * Period < a * Period
      <4>1. n * Period \in Nat /\ a * Period \in Nat
        BY <2>2, <2>3
      <4>2. ASSUME n * Period < a * Period PROVE e < a * Period
        <5>1. n + 1 <= a
          <6> SUFFICES ASSUME a <= n PROVE FALSE
            BY <2>2, <2>3
          <6>1. a * Period <= n * Period
            BY <2>2, <2>3, TimesOrder
          <6> QED
            BY <6>1, <4>1, <4>2
        <5>2. (n + 1) * Period <= a * Period
          BY <5>1, <2>2, <2>3, TimesOrder
        <5>3. (n + 1) * Period = n * Period + Period
          BY <2>2
        <5> QED
          BY <5>2, <5>3, <2>1, <2>2, <4>1
      <4> QED
        BY <4>1, <4>2, <2>1
    <3>2. InFirstHold(n) <=> n * Period < Hold1
      <4>1. 0 \in 0 .. n /\ 0 * c = 0 /\ n * Period \in Nat
        BY <2>2, <2>5
      <4> QED
        BY <4>1, <2>2, <2>5, <2>7, <2>9
    <3> QED
      BY <2>3, <2>6, <2>9, <3>1, <3>2 DEF HoldPhase, e, n
  <2> QED
    BY <2>2, <2>8, <2>9
<1> QED BY <1>1, TimingHolds, PTL
=============================================================================
