-------------------------------- MODULE Fpga --------------------------------
(***************************************************************************)
(* TopEntity.v: the SPI slave's registers are the inputs of the PWM module *)
(* of an axis, and both share the clock and the reset button.  The PWM     *)
(* modules of the two axes are alike; the axis here is the one whose       *)
(* fields begin after bit First of the frame.                              *)
(***************************************************************************)
EXTENDS SpiSlave

CONSTANTS
  First,      \* 0 for yaw, 16 for pitch
  DutyBits,   \* 14
  Period,     \* PWM_PERIOD
  MaxCounter  \* 2^14 - 1

VARIABLES counter, INA, INB, C, steady, pulses

pwmVars == <<counter, INA, INB, C, steady, pulses>>

dirWire == held[First + 1]
enableWire == held[First + 2]

\* The duty of a word, its highest bit first.
DutyValue(word) ==
  LET value[n \in 0 .. DutyBits] ==
        IF n = 0 THEN 0 ELSE 2 * value[n - 1] + word[First + 2 + n]
  IN  value[DutyBits]

dutyWire == DutyValue(held)

wires == <<dirWire, enableWire, dutyWire>>

Pwm == INSTANCE Pwm WITH enable <- enableWire, dir <- dirWire, duty <- dutyWire

\* The last conjunct is a fact about binary numbers that takes an induction.
ASSUME FpgaAssumption ==
  /\ First \in Nat /\ DutyBits \in Nat /\ First + 2 + DutyBits <= FrameBits
  /\ Period \in Nat \ {0} /\ MaxCounter \in Nat /\ Period <= MaxCounter
  /\ 2 ^ DutyBits = MaxCounter + 1
  /\ \A word \in Word : DutyValue(word) \in 0 .. MaxCounter

fpgaVars == <<vars, pwmVars>>

FpgaTypeOK == TypeOK /\ Pwm!PwmTypeOK

FpgaInit == Init /\ Pwm!PwmInit

\* Both modules read the registers before the clock.
FpgaClock ==
  /\ Clock
  /\ \/ wires' = wires /\ Pwm!Tick
     \/ wires' # wires /\ Pwm!TickThenChange

FpgaReset == ResetClock /\ Pwm!PwmReset

Outside ==
  /\ Count \/ Select \/ Rise \/ Fall \/ Deselect
  /\ UNCHANGED pwmVars

FpgaNext == FpgaClock \/ FpgaReset \/ Outside

FpgaSpec == FpgaInit /\ [][FpgaNext]_fpgaVars

\* "duty is expressed directly in PWM clock ticks": the command of a whole frame
\* drives the motor for exactly its duty in every period until the next command,
\* wherever in the period it arrived; a disabled one, or the reset, for none.  One
\* that asks for more than a period, which no command of the program does
\* (MOTOR_PWM_MAX is 512, PWM_PERIOD 2500), drives it all the time.
DutyIsExact == Pwm!DutyIsExact
=============================================================================
