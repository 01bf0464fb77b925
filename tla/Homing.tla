------------------------------- MODULE Homing -------------------------------
(***************************************************************************)
(* homing_run: drive one axis at a time away from home and then back until *)
(* its encoder stagnates, take the two stops as the ends of its travel and *)
(* the second one as software zero.  One action per loop test or exchange, *)
(* since the signal handler can clear keep_running between any two.        *)
(***************************************************************************)
EXTENDS Calibration

CONSTANTS
  HomingPwm,    \* config->pwm
  Window,       \* config->stop_window_samples
  Threshold,    \* config->movement_threshold_counts
  MaxSamples,   \* config->max_samples_per_axis
  Settle,       \* config->settle_samples
  GarbageCounts, \* what an uninitialised int16_t on the stack may hold
  Unset          \* marks a local variable nothing was assigned to

ASSUME HomingAssumption ==
  /\ HomingPwm \in 1 .. PwmMax
  /\ Window \in Nat \ {0}
  /\ Threshold \in Nat
  /\ MaxSamples \in Nat
  /\ Settle \in Nat
  /\ GarbageCounts \subseteq Int16
  /\ Unset \notin Int

VARIABLES
  hpc,         \* where homing_run is
  axis,        \* the axis being homed
  leg,         \* which of the two drives of measure_and_home_axis
  sampleIndex, \* sample_index of drive_axis_until_stalled
  lastMoving,  \* last_moving_count
  stagnant,    \* stagnant_samples
  settled,     \* i of stop_and_settle
  stopCount,   \* per leg: opposite_stop_count, home_stop_count, or Unset
  hresult      \* what homing_run returns: 0 or the name of an errno

driveVars == <<sampleIndex, lastMoving, stagnant>>
homingVars == <<hpc, axis, leg, driveVars, settled, stopCount, hresult>>

Legs == {"away", "home"}

\* JIWY_HOMING_YAW_HOME_DIRECTION and JIWY_HOMING_PITCH_HOME_DIRECTION
HomeDirection == NEGATIVE

DriveDirection == IF leg = "away" THEN Opposite(HomeDirection) ELSE HomeDirection

\* Mutant of HomeCommand: the else of "if (axis == AXIS_YAW)" is lost, so the
\* yaw motor is driven in either case.
HomeCommandBoth ==
  [a \in Axes |-> IF a \in {axis, "yaw"}
                  THEN [direction |-> DriveDirection, enable |-> 1, pwm |-> HomingPwm]
                  ELSE AxisOff]

HomeCommand ==
  [StopCommand EXCEPT ![axis] =
     [direction |-> DriveDirection, enable |-> 1, pwm |-> HomingPwm]]

\* idle: homing_run has returned to a caller that did something since.
HomingLabels ==
  {"start", "drive", "push", "settle", "settleStop", "gaveUp", "legDone",
   "measure", "finalStop", "returned", "idle"}

HomingTypeOK ==
  /\ hpc \in HomingLabels
  /\ axis \in Axes
  /\ leg \in Legs
  /\ sampleIndex \in 0 .. MaxSamples
  /\ lastMoving \in Int16
  /\ stagnant \in Nat
  /\ settled \in 0 .. Settle
  /\ stopCount \in [Legs -> Int16 \cup {Unset}]
  /\ hresult \in {"0", "EIO", "ETIMEDOUT", "ERANGE"}

HomingInit ==
  /\ hpc = "start" /\ axis = "yaw" /\ leg = "away"
  /\ sampleIndex = 0 /\ lastMoving = 0 /\ stagnant = 0 /\ settled = 0
  /\ stopCount = [l \in Legs |-> Unset]
  /\ hresult = "0"

Return(result) == hpc' = "returned" /\ hresult' = result

(***************************************************************************)
(* drive_axis_until_stalled                                                *)
(***************************************************************************)
\* The stop exchange that reads the count the drive starts from.
StartLeg ==
  /\ hpc = "start"
  /\ \/ /\ Exchange(StopCommand, TRUE)
        /\ hpc' = "drive" /\ hresult' = hresult
        /\ lastMoving' = EncoderCount(axis)
     \/ /\ Exchange(StopCommand, FALSE)
        /\ Return("EIO")
        /\ lastMoving' = lastMoving
  /\ sampleIndex' = 0 /\ stagnant' = 0
  /\ UNCHANGED <<calibrationVars, axis, leg, settled, stopCount>>

\* Mutant of DriveTest: the loop does not look at keep_running.
DriveTestDeaf ==
  /\ hpc = "drive"
  /\ hpc' = IF sampleIndex < MaxSamples THEN "push" ELSE "settle"
  /\ settled' = 0
  /\ UNCHANGED <<rigVars, calibrationVars, axis, leg, driveVars, stopCount, hresult>>

\* The test of the for loop, which reads keep_running.
DriveTest ==
  /\ hpc = "drive"
  /\ hpc' = IF sampleIndex < MaxSamples /\ keepRunning
            THEN "push" ELSE "settle"
  /\ settled' = 0
  /\ UNCHANGED <<rigVars, calibrationVars, axis, leg, driveVars, stopCount, hresult>>

Distance(m, n) == IF m >= n THEN m - n ELSE n - m

\* The stagnation count after a sample that reads count.
StagnantAfter(count) ==
  IF Distance(count, lastMoving) >= Threshold THEN 0 ELSE stagnant + 1

\* Mutant of Stalled: the samples in which the axis gets going count too.
StalledAtStart(count) == StagnantAfter(count) >= Window

\* The end stop is inferred from encoder stagnation.
Stalled(count) == sampleIndex >= Window /\ StagnantAfter(count) >= Window

PushOk ==
  LET count == EncoderCount(axis)
  IN  /\ hpc = "push"
      /\ Exchange(HomeCommand, TRUE)
      /\ stagnant' = StagnantAfter(count)
      /\ lastMoving' = IF StagnantAfter(count) = 0 THEN count ELSE lastMoving
      /\ IF Stalled(count)
         THEN /\ hpc' = "settle" /\ stopCount' = [stopCount EXCEPT ![leg] = count]
              /\ UNCHANGED sampleIndex
         ELSE /\ hpc' = "drive" /\ sampleIndex' = sampleIndex + 1
              /\ UNCHANGED stopCount
      /\ settled' = 0
      /\ UNCHANGED <<calibrationVars, axis, leg, hresult>>

PushFails ==
  /\ hpc = "push"
  /\ Exchange(HomeCommand, FALSE)
  /\ Return("EIO")
  /\ UNCHANGED <<calibrationVars, axis, leg, driveVars, settled, stopCount>>

\* stop_and_settle: the test of its loop, then one stop exchange per turn.
SettleTest ==
  /\ hpc = "settle"
  /\ hpc' = IF settled < Settle /\ keepRunning THEN "settleStop"
            ELSE IF stopCount[leg] # Unset THEN "legDone" ELSE "gaveUp"
  /\ UNCHANGED <<rigVars, calibrationVars, axis, leg, driveVars, settled,
                 stopCount, hresult>>

\* Mutant of SettleStop: the loop counter is not advanced.
SettleStopForever ==
  /\ hpc = "settleStop"
  /\ \/ Exchange(StopCommand, TRUE) /\ hpc' = "settle" /\ hresult' = hresult
     \/ Exchange(StopCommand, FALSE) /\ Return("EIO")
  /\ UNCHANGED <<calibrationVars, axis, leg, driveVars, settled, stopCount>>

SettleStop ==
  /\ hpc = "settleStop"
  /\ \/ /\ Exchange(StopCommand, TRUE)
        /\ hpc' = "settle" /\ settled' = settled + 1 /\ hresult' = hresult
     \/ /\ Exchange(StopCommand, FALSE)
        /\ Return("EIO") /\ settled' = settled
  /\ UNCHANGED <<calibrationVars, axis, leg, driveVars, stopCount>>

\* The last line of drive_axis_until_stalled reads keep_running again: the
\* drive that ran out of samples returns 0 if the signal has come by now.
GaveUp ==
  /\ hpc = "gaveUp"
  /\ IF keepRunning THEN Return("ETIMEDOUT")
     ELSE hpc' = "legDone" /\ hresult' = hresult
  /\ UNCHANGED <<rigVars, calibrationVars, axis, leg, driveVars, settled, stopCount>>

(***************************************************************************)
(* measure_and_home_axis and homing_run                                    *)
(***************************************************************************)
LegDone ==
  /\ hpc = "legDone"
  /\ IF leg = "away" THEN leg' = "home" /\ hpc' = "start"
     ELSE leg' = leg /\ hpc' = "measure"
  /\ UNCHANGED <<rigVars, calibrationVars, axis, driveVars, settled, stopCount, hresult>>

\* A leg that was interrupted left its stop count uninitialised; count_span
\* and the home count read it all the same.
ReadCounts ==
  {counts \in [Legs -> (GarbageCounts \cup {stopCount[l] : l \in Legs}) \ {Unset}] :
     \A l \in Legs : stopCount[l] # Unset => counts[l] = stopCount[l]}

Measure ==
  /\ hpc = "measure"
  /\ \E counts \in ReadCounts :
       LET span == Distance(counts["away"], counts["home"])
       IN  IF span = 0
           THEN /\ Return("ERANGE")
                /\ UNCHANGED <<calibrationVars, axis, leg, stopCount>>
           ELSE /\ homeCount' = [homeCount EXCEPT ![axis] = counts["home"]]
                /\ travel' = [travel EXCEPT ![axis] = span]
                /\ stopCount' = [l \in Legs |-> Unset]
                /\ axis' = "pitch" /\ leg' = "away" /\ hresult' = hresult
                /\ hpc' = IF axis = "yaw" THEN "start" ELSE "finalStop"
  /\ UNCHANGED <<rigVars, driveVars, settled>>

\* Mutant of FinalStop: homing_run returns without the last exchange.
FinalStopMissing ==
  /\ hpc = "finalStop"
  /\ Return("0")
  /\ UNCHANGED <<rigVars, calibrationVars, axis, leg, driveVars, settled, stopCount>>

FinalStop ==
  /\ hpc = "finalStop"
  /\ \/ Exchange(StopCommand, TRUE) /\ Return("0")
     \/ Exchange(StopCommand, FALSE) /\ Return("EIO")
  /\ UNCHANGED <<calibrationVars, axis, leg, driveVars, settled, stopCount>>

HomingStep ==
  \/ StartLeg \/ DriveTest \/ PushOk \/ PushFails \/ SettleTest \/ SettleStop
  \/ GaveUp \/ LegDone \/ Measure \/ FinalStop

(***************************************************************************)
(* homing_run on its own, from its call to its return.  The process keeps  *)
(* taking steps (it never blocks for good); a signal may or may not come.  *)
(***************************************************************************)
HomingOnlyVars == <<rigVars, calibrationVars, homingVars>>

HomingOnlyInit == RigInit /\ CalibrationInit /\ HomingInit

HomingReturned == hpc = "returned" /\ UNCHANGED HomingOnlyVars

SignalHoming == Signal /\ UNCHANGED <<calibrationVars, homingVars>>

HomingOnlyNext == HomingStep \/ SignalHoming \/ HomingReturned

HomingSpec ==
  HomingOnlyInit /\ [][HomingOnlyNext]_HomingOnlyVars /\ WF_HomingOnlyVars(HomingStep)

TypeOK == RigTypeOK /\ CalibrationTypeOK /\ HomingTypeOK

\* "only one motor pushes a stop" (homing_run): once the program has reached
\* the FPGA, the FPGA never holds a command that enables both motors while
\* homing is under way.
OneMotorAtATime ==
  contacted /\ hpc # "idle" => \E a \in Axes : held[a].enable = 0

\* Between two different pushes, of either axis and in either direction, the
\* FPGA holds a stop command: homing never reverses a motor that is driven
\* and never hands over from a pushing axis to the other.
StopBetweenPushes ==
  [][contacted /\ Energised /\ hpc # "idle" /\ held' # held
       => MotorsOff(held')]_HomingOnlyVars

\* A stop count that drive_axis_until_stalled reports was read with the axis
\* at the mechanical stop it was driven to, not while it was starting up or
\* still moving, and a homing that completes leaves both axes calibrated.
StopsAreReal ==
  /\ stopCount["away"] # Unset => stopCount["away"] = CountAtStop[axis] + Travel
  /\ stopCount["home"] # Unset => stopCount["home"] = CountAtStop[axis]
  /\ hpc = "returned" /\ hresult = "0" /\ keepRunning
       => Calibrated /\ \A a \in Axes : position[a] = 0

\* homing_run returns success or a timeout only with the motors disabled in
\* the FPGA, whatever was interrupted or failed on the way.
QuietReturn ==
  hpc = "returned" /\ hresult \in {"0", "ETIMEDOUT"} => MotorsOff(held)

\* After the signal at most one more enabling command leaves the program: the
\* exchange whose loop test had already been passed.
AtMostOneLateDrive == lateDrives <= 1

\* homing.h says that homing "uses the measured span": the span is taken only
\* between stops that were measured.  After a signal the code takes it between
\* local variables it never assigned.
SpanIsMeasured ==
  hpc = "measure" => \A l \in Legs : stopCount[l] # Unset
=============================================================================
