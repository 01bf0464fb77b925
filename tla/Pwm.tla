-------------------------------- MODULE Pwm --------------------------------
(***************************************************************************)
(* PWM.v: a counter over one period, the two direction outputs and the     *)
(* speed output of one motor.  The inputs are wires from the SPI slave, so *)
(* no action here says how they change; Fpga does.                         *)
(***************************************************************************)
EXTENDS Naturals

CONSTANTS
  Period,     \* PWM_PERIOD
  MaxCounter  \* 2^14 - 1, the largest value of counter

VARIABLES
  enable, dir, duty, \* the inputs
  counter,
  INA, INB, C,       \* the outputs
  steady,            \* observer: clocks since an input changed, then in this window
  pulses             \* observer: how many of them C was high after

\* The counter is inside the period from the first clock on.
PwmTypeOK ==
  /\ counter \in 0 .. MaxCounter
  /\ steady > 0 => counter < Period
  /\ INA \in {0, 1} /\ INB \in {0, 1} /\ C \in {0, 1}
  /\ steady \in 0 .. Period /\ pulses \in 0 .. steady

\* No register has an initial value, and nothing but the operator's button
\* resets them.
PwmInit ==
  /\ counter \in 0 .. MaxCounter
  /\ INA \in {0, 1} /\ INB \in {0, 1} /\ C \in {0, 1}
  /\ steady = 0 /\ pulses = 0

Advanced == IF counter >= Period - 1 THEN 0 ELSE counter + 1

\* Mutant of Speed: off by one.
SpeedLong == IF enable = 1 /\ counter <= duty THEN 1 ELSE 0

Speed == IF enable = 1 /\ counter < duty THEN 1 ELSE 0

\* INA, INB
Bridge == IF enable = 1 THEN <<1 - dir, dir>> ELSE <<0, 0>>

\* One clock.  Windows of Period clocks follow each other from an input change
\* on, so they begin anywhere in the period.
Tick ==
  /\ counter' = Advanced
  /\ INA' = Bridge[1] /\ INB' = Bridge[2] /\ C' = Speed
  /\ IF steady < Period
     THEN steady' = steady + 1 /\ pulses' = pulses + Speed
     ELSE steady' = 1 /\ pulses' = Speed

\* One clock at whose end an input changes.
TickThenChange ==
  /\ counter' = Advanced
  /\ INA' = Bridge[1] /\ INB' = Bridge[2] /\ C' = Speed
  /\ steady' = 0 /\ pulses' = 0

\* The reset is asynchronous.
PwmReset ==
  /\ counter' = 0 /\ INA' = 0 /\ INB' = 0 /\ C' = 0
  /\ steady' = 0 /\ pulses' = 0

\* "duty is expressed directly in PWM clock ticks": a command that stays drives
\* the motor for exactly duty clocks of a period, wherever in the period it
\* arrived, a duty beyond the period for all of it, and a disabled one for none.
DutyIsExact ==
  steady = Period =>
    pulses = IF enable = 0 THEN 0 ELSE IF duty < Period THEN duty ELSE Period
=============================================================================
