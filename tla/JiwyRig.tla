------------------------------ MODULE JiwyRig ------------------------------
(***************************************************************************)
(* What the control program shares with its surroundings: the FPGA's held  *)
(* motor command (SPI.v keeps the last complete frame until the next one), *)
(* the two axes between their mechanical stops, and keep_running, the flag *)
(* its signal handler clears.  Every exchange of the program, made through *)
(* motor_comm_exchange, is the operator Exchange.                          *)
(***************************************************************************)
EXTENDS MotorProtocol, FiniteSets

CONSTANTS
  Travel,       \* encoder counts between the two mechanical stops of an axis
  MinStep,      \* fewest counts a driven, unblocked axis moves per sample
  MaxStep,      \* most counts it moves per sample
  CountAtStop,  \* per axis: the encoder count at its negative stop
  StaleCommands \* what the FPGA may hold from a process that ended earlier

ASSUME TravelAssumption == Travel \in Nat \ {0}
ASSUME StepAssumption == /\ MinStep \in Nat /\ MaxStep \in Nat
                         /\ MinStep <= MaxStep
\* The FPGA counts from zero at power-up and the travel is far below 2^15, so
\* the 16 bit counter does not wrap between the stops.
ASSUME CountAssumption ==
  /\ CountAtStop \in [Axes -> Int16]
  /\ \A a \in Axes : CountAtStop[a] + Travel \in Int16
ASSUME StaleAssumption == StaleCommands \subseteq [Axes -> HeldAxis]

VARIABLES
  held,        \* the command in the FPGA's registers
  position,    \* per axis: counts above the negative mechanical stop
  keepRunning, \* keep_running
  contacted,   \* observer: some exchange has succeeded
  lateDrives   \* observer: enabling commands sent after the signal

rigVars == <<held, position, keepRunning, contacted, lateDrives>>

RigTypeOK ==
  /\ held \in [Axes -> HeldAxis]
  /\ position \in [Axes -> 0 .. Travel]
  /\ keepRunning \in BOOLEAN
  /\ contacted \in BOOLEAN
  /\ lateDrives \in Nat

\* A new process finds the axes anywhere and whatever command the FPGA holds:
\* nothing resets the FPGA when a process ends.
RigInit ==
  /\ held \in StaleCommands
  /\ position \in [Axes -> 0 .. Travel]
  /\ keepRunning = TRUE
  /\ contacted = FALSE
  /\ lateDrives = 0

EncoderCount(a) == Count16(CountAtStop[a] + position[a])
EncoderSample == [a \in Axes |-> EncoderCount(a)]

\* Bound of the observer lateDrives (not in the code): two is already too many.
LateLimit == 2

\* Where an axis can be one sample later under the command it is held at.
Reach(p, axisCommand) ==
  IF ~Driving(axisCommand) THEN {p}
  ELSE {q \in 0 .. Travel :
          \E s \in MinStep .. MaxStep :
            IF axisCommand.direction = NEGATIVE
            THEN q = IF p > s THEN p - s ELSE 0
            ELSE q = IF p + s < Travel THEN p + s ELSE Travel}

(***************************************************************************)
(* One exchange and the sample period after it.  The reply carries the     *)
(* counts latched when the frame starts, EncoderSample in the state before *)
(* the step.  A failed ioctl may or may not have reached the FPGA: a short *)
(* frame is ignored there, a complete one is held.                         *)
(***************************************************************************)
Exchange(command, ok) ==
  /\ held' \in IF ok THEN {Latched(command)} ELSE {held, Latched(command)}
  /\ position' \in [Axes -> 0 .. Travel]
  /\ \A a \in Axes : position'[a] \in Reach(position[a], held'[a])
  /\ contacted' = (contacted \/ ok)
  /\ lateDrives' = IF keepRunning \/ MotorsOff(command) \/ lateDrives = LateLimit
                   THEN lateDrives ELSE lateDrives + 1
  /\ UNCHANGED keepRunning

\* SIGINT or SIGTERM: handle_signal.
Signal ==
  /\ keepRunning
  /\ keepRunning' = FALSE
  /\ UNCHANGED <<held, position, contacted, lateDrives>>

Energised == ~MotorsOff(held)

=============================================================================
