----------------------------- MODULE JiwyMain -----------------------------
(***************************************************************************)
(* main: open the SPI device, home, and with --hold or --track run the     *)
(* control loop, with a stop exchange after each part.  Composes Homing    *)
(* and ControlLoop, which run only while main is inside their call.        *)
(***************************************************************************)
EXTENDS Homing, ControlLoop

VARIABLES
  mpc,     \* where main is
  exitCode \* the exit status, NoCode while the program runs

mainVars == <<mpc, exitCode>>
vars == <<rigVars, calibrationVars, homingVars, controlVars, mainVars>>

NoCode == -1

MainLabels ==
  {"open", "homing", "homingStop", "checkHoming", "readInitial", "startVision",
   "control", "controlStop", "stopVision", "exited"}

MainTypeOK ==
  /\ RigTypeOK /\ CalibrationTypeOK /\ HomingTypeOK /\ ControlTypeOK
  /\ mpc \in MainLabels
  /\ exitCode \in {NoCode, 0, 1, 130}

Init ==
  /\ RigInit /\ CalibrationInit /\ HomingInit /\ ControlInit
  /\ mpc = "open" /\ exitCode = NoCode

Goto(label) == mpc' = label /\ exitCode' = exitCode
Exit(code) == mpc' = "exited" /\ exitCode' = code

\* rpi_spi_comm_open
OpenSpi ==
  /\ mpc = "open"
  /\ Goto("homing") \/ Exit(1)
  /\ UNCHANGED <<rigVars, calibrationVars, homingVars, controlVars>>

Home ==
  /\ mpc = "homing"
  /\ HomingStep
  /\ UNCHANGED <<controlVars, mainVars>>

HomingReturns ==
  /\ mpc = "homing" /\ hpc = "returned"
  /\ Goto("homingStop")
  /\ hpc' = "idle"
  /\ UNCHANGED <<rigVars, calibrationVars, axis, leg, driveVars, settled, stopCount,
                 hresult, controlVars>>

\* The stop exchange after homing_run; its result is not looked at.
HomingStop ==
  /\ mpc = "homingStop"
  /\ \E ok \in BOOLEAN : Exchange(StopCommand, ok)
  /\ Goto("checkHoming")
  /\ UNCHANGED <<calibrationVars, homingVars, controlVars>>

\* Mutant of CheckHoming: an interrupted homing is taken for a complete one.
CheckHomingDeaf ==
  /\ mpc = "checkHoming"
  /\ IF hresult # "0" THEN Exit(1)
     ELSE IF holding \/ tracking THEN Goto("readInitial")
     ELSE Exit(0)
  /\ UNCHANGED <<rigVars, calibrationVars, homingVars, controlVars>>

CheckHoming ==
  /\ mpc = "checkHoming"
  /\ IF hresult # "0" THEN Exit(1)
     ELSE IF ~keepRunning THEN Exit(130)
     ELSE IF holding \/ tracking THEN Goto("readInitial")
     ELSE Exit(0)
  /\ UNCHANGED <<rigVars, calibrationVars, homingVars, controlVars>>

\* The stop exchange that reads initial_encoders.
ReadInitial ==
  /\ mpc = "readInitial"
  /\ \/ /\ Exchange(StopCommand, TRUE)
        /\ encoders' = EncoderSample
        /\ Goto(IF tracking THEN "startVision" ELSE "control")
     \/ /\ Exchange(StopCommand, FALSE)
        /\ encoders' = encoders
        /\ Exit(1)
  /\ UNCHANGED <<calibrationVars, homingVars, modeVars, cpc, command, targetVars,
                 cameraVars, cresult>>

\* The middle of the range is the target until a frame is seen.
StartVision ==
  /\ mpc = "startVision"
  /\ \/ /\ Goto("control")
        /\ activeTarget' = [a \in Axes |-> travel[a] \div 2]
     \/ /\ Exit(1)
        /\ activeTarget' = activeTarget
  /\ UNCHANGED <<rigVars, calibrationVars, homingVars, modeVars, cpc, command,
                 encoders, setpoint, lastFrame, updates, cameraVars, cresult>>

Control ==
  /\ mpc = "control"
  /\ ControlStep
  /\ UNCHANGED <<homingVars, mainVars>>

\* The camera thread publishes from its start until it is joined.
Camera ==
  /\ tracking
  /\ mpc \in {"startVision", "control", "controlStop", "stopVision"}
  /\ PublishSnapshot
  /\ UNCHANGED <<homingVars, mainVars>>

ControlReturns ==
  /\ mpc = "control" /\ cpc = "returned"
  /\ Goto("controlStop")
  /\ UNCHANGED <<rigVars, calibrationVars, homingVars, controlVars>>

\* The stop exchange after control_loop_run; its result is not looked at.
StopAfterControl ==
  /\ mpc = "controlStop"
  /\ \E ok \in BOOLEAN : Exchange(StopCommand, ok)
  /\ Goto("stopVision")
  /\ UNCHANGED <<calibrationVars, homingVars, controlVars>>

\* vision_tracker_stop, which joins the camera thread, and the exit.
StopVision ==
  /\ mpc = "stopVision"
  /\ Exit(IF cresult = "0" THEN 0 ELSE 1)
  /\ UNCHANGED <<rigVars, calibrationVars, homingVars, controlVars>>

Exited == mpc = "exited" /\ UNCHANGED vars

HandleSignal ==
  /\ mpc # "exited"
  /\ Signal
  /\ UNCHANGED <<calibrationVars, homingVars, controlVars, mainVars>>

\* The program's own steps, but for vision_tracker_start and vision_tracker_stop.
MainStep ==
  \/ OpenSpi \/ Home \/ HomingReturns \/ HomingStop \/ CheckHoming
  \/ ReadInitial \/ Control \/ ControlReturns \/ StopAfterControl

Next == MainStep \/ StartVision \/ StopVision \/ Camera \/ HandleSignal \/ Exited

(***************************************************************************)
(* Fairness: the process is scheduled and its ioctls and sleeps return, so *)
(* a main thread that can step does.  Without a tracker vision_tracker_stop*)
(* returns at once; with one, its start and its stop wait for other threads*)
(* and may hang (VisionTracker), so nothing is assumed of them here.       *)
(* Signals and camera frames are never promised.                           *)
(***************************************************************************)
Spec ==
  /\ Init /\ [][Next]_vars
  /\ WF_vars(MainStep)
  /\ WF_vars(~tracking /\ StopVision)

\* main reports "motors disabled" with 130 and clean ends with 0: at either
\* exit the FPGA holds a command that disables both motors, although the last
\* stop exchange of main goes unchecked.
QuietExit == exitCode \in {0, 130} => MotorsOff(held)

\* Whatever an earlier process left in the FPGA, the first exchange of this
\* one that succeeds disables the motors.  ImplementsMotorSafety contains it.
FirstContactStops == [][~contacted /\ contacted' => MotorsOff(held')]_vars

\* The control loop runs only on a complete calibration (its conversion to
\* radians divides by the measured travel), even if a signal came in homing.
ControlNeedsHoming ==
  mpc \in {"readInitial", "startVision", "control", "controlStop", "stopVision"}
    => Calibrated

\* A camera frame moves the target at most once, however many samples see it.
FrameUsedOnce == updates <= validFrames

\* Every loop of homing_run is bounded, so it returns to main even when no stop
\* is found and no signal comes.
HomingEnds == mpc = "homing" ~> mpc # "homing"

\* A signal ends the run; with a tracker it at least gets to the next of the
\* tracker's two calls that wait for other threads, of which the stop comes after
\* the last stop exchange.
SignalEndsRun ==
  ~keepRunning
    ~> mpc = "exited" \/ (tracking /\ mpc \in {"startVision", "stopVision"})

(***************************************************************************)
(* What the program makes of the motors, as MotorSafety sees it.           *)
(***************************************************************************)
Stage ==
  IF mpc = "exited" THEN IF exitCode = 1 THEN "failed" ELSE "ended"
  ELSE IF ~contacted THEN "first"
  ELSE IF mpc \in {"startVision", "control", "controlStop", "stopVision"}
       THEN "control" ELSE "homing"

DrivesOf(c) ==
  [a \in Axes |-> IF c[a].enable = 0 THEN 0
                  ELSE IF c[a].direction = POSITIVE THEN 1 ELSE -1]

Safety ==
  INSTANCE MotorSafety
    WITH Motors <- Axes, stage <- Stage, drives <- DrivesOf(held),
         signalled <- ~keepRunning, late <- lateDrives > 0

\* However exchanges fail and whenever the signal comes, the program keeps the
\* order of stops and pushes in homing, begins control from a stop, and ends
\* properly only with the motors off.
ImplementsMotorSafety == Safety!MotorSafetySpec
=============================================================================
