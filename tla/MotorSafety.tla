---------------------------- MODULE MotorSafety ----------------------------
(***************************************************************************)
(* What the program promises of the motors, with nothing of how it does    *)
(* it.  It makes contact with a stop, whatever an earlier process left     *)
(* running; homing pushes with one motor at a time and from standstill;    *)
(* control is free to steer, but begins with the motors off; after the     *)
(* signal at most one command more enables a motor; and a program that     *)
(* reports a proper end has left the motors off.                           *)
(***************************************************************************)
EXTENDS Integers

CONSTANT Motors

VARIABLES
  stage,     \* what the program is doing
  drives,    \* per motor: the direction it is enabled in, or 0
  signalled, \* has the signal come?
  late       \* has a command to enable a motor followed it?

safetyVars == <<stage, drives, signalled, late>>

Off == [m \in Motors |-> 0]
Drives == [Motors -> {-1, 0, 1}]
OneMotor(d) == \A m, n \in Motors : d[m] # 0 /\ d[n] # 0 => m = n

Running == {"first", "homing", "control"}

SafetyInit ==
  /\ stage = "first" /\ drives \in Drives
  /\ ~signalled /\ ~late

\* A stop that may get lost on its way; it is the contact if it does not.
Stop ==
  /\ stage \in Running
  /\ drives' \in {drives, Off}
  /\ \/ stage' = stage
     \/ stage = "first" /\ stage' = "homing" /\ drives' = Off
  /\ UNCHANGED <<signalled, late>>

\* A command that enables a motor leaves the program.
Enable == ~late /\ late' = signalled /\ UNCHANGED <<stage, signalled>>

\* Homing sets out from standstill, or repeats its push.
Push ==
  /\ stage = "homing"
  /\ drives' = drives \/ (drives = Off /\ drives' \in Drives /\ OneMotor(drives'))
  /\ Enable

\* Control begins with a stop that arrived ...
BeginControl ==
  /\ stage = "homing" /\ stage' = "control"
  /\ drives' = Off
  /\ UNCHANGED <<signalled, late>>

\* ... and goes on with whatever its controllers compute.
Steer ==
  /\ stage = "control"
  /\ drives' \in Drives
  /\ Enable

SignalCame ==
  /\ stage \in Running /\ ~signalled
  /\ signalled' = TRUE
  /\ UNCHANGED <<stage, drives, late>>

\* A proper end, or one that reports a failure: its last stop may be lost.
End ==
  /\ stage \in Running
  /\ \/ stage' = "ended" /\ drives = Off /\ drives' = Off
     \/ stage' = "failed" /\ drives' \in {drives, Off}
  /\ UNCHANGED <<signalled, late>>

SafetyNext ==
  Stop \/ Push \/ BeginControl \/ Steer \/ SignalCame \/ End

MotorSafetySpec == SafetyInit /\ [][SafetyNext]_safetyVars
=============================================================================
