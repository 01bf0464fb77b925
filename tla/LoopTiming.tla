----------------------------- MODULE LoopTiming -----------------------------
(***************************************************************************)
(* When control_loop_run starts its samples: the deadline advanced by one  *)
(* period per sample, the lateness test and the absolute sleep.  Times are *)
(* normalised timespecs, and the C divisions that truncate toward zero are *)
(* kept, since the test compares microseconds and the sleep nanoseconds.   *)
(* The hold schedule is read at the start of a sample: it is part of this  *)
(* module, as what it gives depends on when that is.                       *)
(***************************************************************************)
EXTENDS Integers

CONSTANTS
  Period,     \* config->sample_period_us
  WorkTimes,  \* how long the work of one sample may take, in nanoseconds
  Latencies,  \* how late the sleep may wake up, in nanoseconds
  MaxSamples, \* bound on the number of samples (not in the code)
  StartTimes, \* what the clock may show when the loop is entered
  Hold1, Hold2, \* durations of the two targets of the schedule, in microseconds
  Repeat      \* schedule->repeat

Nanos == 1000000000
Timespec == [sec : Nat, nsec : {n \in Nat : n < Nanos}]

ASSUME PeriodAssumption == Period \in Nat \ {0} /\ Period < 1000000
\* No sample and no wake-up takes a second or more.
ASSUME DurationAssumption ==
  /\ WorkTimes \subseteq {n \in Nat : n < Nanos}
  /\ Latencies \subseteq {n \in Nat : n < Nanos}
ASSUME StartAssumption == StartTimes \subseteq Timespec
ASSUME BoundAssumption == MaxSamples \in Nat
\* A duration that is not positive is written 0.
ASSUME HoldAssumption == Hold1 \in Nat /\ Hold2 \in Nat /\ Repeat \in BOOLEAN

VARIABLES
  now,         \* CLOCK_MONOTONIC
  loopStart,   \* loop_start
  deadline,    \* next_deadline
  lpc,         \* where the loop is
  sampleIndex, \* sample_index
  latency,     \* observer: how late the last sleep woke up, 0 if none
  calm         \* observer: every sample so far fitted its period

vars == <<now, loopStart, deadline, lpc, sampleIndex, latency, calm>>

TypeOK ==
  /\ now \in Timespec /\ loopStart \in Timespec /\ deadline \in Timespec
  /\ lpc \in {"test", "work", "sleep", "done"}
  /\ sampleIndex \in Nat
  /\ latency \in {n \in Nat : n < Nanos}
  /\ calm \in BOOLEAN

(***************************************************************************)
(* Times                                                                   *)
(***************************************************************************)
\* n nanoseconds (less than a second) after t: the carry of a normalised
\* timespec.
After(t, n) ==
  IF t.nsec + n >= Nanos THEN [sec |-> t.sec + 1, nsec |-> t.nsec + n - Nanos]
  ELSE [sec |-> t.sec, nsec |-> t.nsec + n]

\* timespec_add_us, for less than a second
AddUs(t, usec) == After(t, usec * 1000)

\* Integer division as C has it.
Trunc(n) == IF n >= 0 THEN n \div 1000 ELSE -((-n) \div 1000)

\* timespec_diff_us
DiffUs(end, start) == (end.sec - start.sec) * 1000000 + Trunc(end.nsec - start.nsec)

AtOrAfter(t, u) == \/ t.sec > u.sec
                   \/ t.sec = u.sec /\ t.nsec >= u.nsec

\* How many nanoseconds t lies after the time the present sample is due,
\* loop_start + sample_index * period.
Lag(t) ==
  ((t.sec - loopStart.sec) * 1000000 - sampleIndex * Period) * 1000
    + (t.nsec - loopStart.nsec)

(***************************************************************************)
(* The schedule                                                            *)
(***************************************************************************)
\* Mutant of HoldPhaseAt: the first target is still held at its end.
HoldPhaseAtLong(elapsed) ==
  LET t == IF Repeat THEN elapsed % (Hold1 + Hold2) ELSE elapsed
  IN  IF Hold1 > 0 /\ (Hold2 = 0 \/ t <= Hold1) THEN 1 ELSE 2

\* hold_schedule_target_at: which target is held that long after loop_start.
\* A target without a duration is skipped, the other one is then held for good.
HoldPhaseAt(elapsed) ==
  IF Hold1 = 0 THEN 2
  ELSE IF Hold2 = 0 THEN 1
  ELSE LET t == IF Repeat THEN elapsed % (Hold1 + Hold2) ELSE elapsed
       IN  IF t < Hold1 THEN 1 ELSE 2

\* The target of the sample that starts now, as control_loop_run reads it.
HoldPhase == HoldPhaseAt(DiffUs(now, loopStart))

(***************************************************************************)
(* The loop                                                                *)
(***************************************************************************)
Init ==
  /\ now \in StartTimes
  /\ loopStart = now /\ deadline = now
  /\ lpc = "test" /\ sampleIndex = 0
  /\ latency = 0 /\ calm = TRUE

\* Mutant of BeginSample: the deadline is set from the present time.
BeginSampleReanchored ==
  /\ lpc = "test" /\ sampleIndex < MaxSamples
  /\ lpc' = "work"
  /\ deadline' = AddUs(now, Period)
  /\ UNCHANGED <<now, loopStart, sampleIndex, latency, calm>>

BeginSample ==
  /\ lpc = "test" /\ sampleIndex < MaxSamples
  /\ lpc' = "work"
  /\ deadline' = AddUs(deadline, Period)
  /\ UNCHANGED <<now, loopStart, sampleIndex, latency, calm>>

\* keep_running was cleared.
EndLoop ==
  /\ lpc = "test"
  /\ lpc' = "done"
  /\ UNCHANGED <<now, loopStart, deadline, sampleIndex, latency, calm>>

\* Mutant of Late: no sleep at the deadline itself.
LateOrDue(end) == DiffUs(end, deadline) >= 0

\* lateness_us > 0
Late(end) == DiffUs(end, deadline) > 0

\* Exchange and computation, then the choice to sleep or to go on at once.
Work ==
  /\ lpc = "work"
  /\ \E w \in WorkTimes :
       /\ now' = After(now, w)
       /\ lpc' = IF Late(After(now, w)) THEN "test" ELSE "sleep"
       /\ calm' = (calm /\ latency + w <= Period * 1000)
  /\ sampleIndex' = sampleIndex + 1
  /\ latency' = 0
  /\ UNCHANGED <<loopStart, deadline>>

\* sleep_until: an absolute sleep, retried after a signal, so it ends at the
\* deadline or some time after it.
Sleep ==
  /\ lpc = "sleep" /\ lpc' = "test"
  /\ \E l \in Latencies :
       /\ latency' = l
       /\ now' = After(IF AtOrAfter(now, deadline) THEN now ELSE deadline, l)
  /\ UNCHANGED <<loopStart, deadline, sampleIndex, calm>>

Done == lpc = "done" /\ UNCHANGED vars

Next == BeginSample \/ EndLoop \/ Work \/ Sleep \/ Done

Spec == Init /\ [][Next]_vars

\* control_loop.c: "sample N targets start_time + N * period": it never starts
\* before that, after an overrun or a sleep, at a second boundary or not.
NeverEarly == lpc = "work" => Lag(now) >= 0

\* "... independent of how long previous samples took": as long as every
\* sample fits its period, each starts within one wake-up latency of its time
\* (and the part of a microsecond the lateness test does not see), so neither
\* the work nor the latencies add up.
NoDrift == lpc = "work" /\ calm => Lag(now) <= latency + 999

\* The samples kept their periods, and the last one began two microseconds or
\* more before the next is due.
OnSchedule == calm /\ latency + 2000 <= Period * 1000

\* Some turn of the schedule holds the first target when sample n is due.
InFirstHold(n) ==
  \E turn \in 0 .. n :
    /\ turn = 0 \/ Repeat
    /\ turn * (Hold1 + Hold2) <= n * Period
    /\ n * Period < turn * (Hold1 + Hold2) + Hold1

\* With durations of whole periods the schedule switches at the sample that is
\* due at the switch, never one earlier or later: neither the wake-up latency
\* nor the truncated microseconds cost or add a sample of a target, as long as
\* the samples keep their periods.
SwitchesOnTime ==
  (/\ lpc = "work" /\ OnSchedule
   /\ Hold1 > 0 /\ Hold2 > 0 /\ Hold1 % Period = 0 /\ Hold2 % Period = 0)
    => (HoldPhase = 1 <=> InFirstHold(sampleIndex))
=============================================================================
