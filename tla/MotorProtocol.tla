--------------------------- MODULE MotorProtocol ---------------------------
(***************************************************************************)
(* The command word exchanged between the Raspberry Pi program and the     *)
(* FPGA: what control_protocol.c packs and what SPI.v unpacks again.  A    *)
(* motor command is a function from the two axes to axis commands.         *)
(***************************************************************************)
EXTENDS Integers

CONSTANTS
  \* MOTOR_PWM_MAX, the largest duty the program may request.
  PwmMax

\* The duty field has 14 bits, so the limit must fit it.
ASSUME PwmMaxAssumption == PwmMax \in 1 .. 16383

Axes == {"yaw", "pitch"}

\* MotorDirection: toward decreasing and toward increasing encoder counts.
NEGATIVE == 0
POSITIVE == 1
Directions == {NEGATIVE, POSITIVE}

Opposite(direction) == IF direction = POSITIVE THEN NEGATIVE ELSE POSITIVE

\* What a C AxisCommand can hold (pwm is a uint16_t) ...
UInt16 == 0 .. 65535
AxisCommand == [direction : Directions, enable : {0, 1}, pwm : UInt16]
\* ... and what the FPGA's registers can hold (a 14 bit duty).
UInt14 == 0 .. 16383
HeldAxis == [direction : Directions, enable : {0, 1}, pwm : UInt14]

\* Mutant of AxisOff: the enable flag is left set.
AxisOffEnabled == [direction |-> NEGATIVE, enable |-> 1, pwm |-> 0]

AxisOff == [direction |-> NEGATIVE, enable |-> 0, pwm |-> 0]
StopCommand == [a \in Axes |-> AxisOff]

Limited(pwm) == IF pwm > PwmMax THEN PwmMax ELSE pwm

PackAxis(command) ==
  32768 * command.direction + 16384 * command.enable + Limited(command.pwm)

\* The registers SPI.v loads from one 16 bit half of a complete frame.
LatchAxis(word) ==
  [direction |-> word \div 32768,
   enable    |-> (word \div 16384) % 2,
   pwm       |-> word % 16384]

\* The registers after a whole command went through the frame.
Latched(command) == [a \in Axes |-> LatchAxis(PackAxis(command[a]))]

\* An encoder count leaves the FPGA as 16 bits and is read back as int16_t.
ToInt16(word) == IF word >= 32768 THEN word - 65536 ELSE word
Count16(n) == ToInt16(n % 65536)

Int16 == {n \in Int : -32768 <= n /\ n <= 32767}

\* PWM.v drives the bridge with torque: enabled, with a duty above zero.
Driving(axisCommand) == axisCommand.enable = 1 /\ axisCommand.pwm > 0
MotorsOff(command) == \A a \in Axes : command[a].enable = 0

=============================================================================
