---------------------------- MODULE ControlLoop ----------------------------
(***************************************************************************)
(* control_loop_run: exchange the command of the previous sample for fresh *)
(* encoder counts, choose the target, step the 20-sim controller, pace the *)
(* loop, until keep_running is cleared.  The controllers' output is any    *)
(* value of Outputs; when a sample starts is the subject of LoopTiming.    *)
(***************************************************************************)
EXTENDS Calibration

CONSTANTS
  Outputs,     \* per axis: controller output in quarters of one PWM tick
  HoldTargets, \* the two targets of the hold schedule, in counts above home
  Errors,      \* per axis: camera errors a valid snapshot can carry, in counts
  MaxFrames    \* bound on the number of camera frames (not in the code)

ASSUME LoopAssumption ==
  /\ Outputs \subseteq [Axes -> Int]
  /\ HoldTargets \subseteq [Axes -> Int]
  /\ Errors \subseteq [Axes -> Int]
  /\ MaxFrames \in Nat

VARIABLES
  holding, tracking, \* hold_schedule and vision_tracker are given
  cpc,               \* where control_loop_run is
  command,           \* command, computed in the previous sample
  encoders,          \* encoders, received in this sample
  activeTarget,      \* active_vision_target, in counts above home
  setpoint,          \* the clamped target the controllers were stepped with
  lastFrame,         \* last_vision_frame_count, 0 before the first one
  snapshot,          \* the tracker's latest snapshot
  cresult,           \* what control_loop_run returns
  updates,           \* observer: how often a frame moved the target
  validFrames        \* observer: how many valid frames were published

modeVars == <<holding, tracking>>
cameraVars == <<snapshot, validFrames>>
targetVars == <<activeTarget, setpoint, lastFrame, updates>>
controlVars == <<modeVars, cpc, command, encoders, targetVars, cameraVars, cresult>>

Targets == [Axes -> Int]

ControlTypeOK ==
  /\ holding \in BOOLEAN /\ tracking \in BOOLEAN
  /\ cpc \in {"entry", "test", "exchange", "compute", "pace", "finalStop",
              "returned"}
  /\ command \in [Axes -> AxisCommand]
  /\ \A a \in Axes : command[a].pwm <= PwmMax
  /\ encoders \in [Axes -> Int16]
  /\ activeTarget \in Targets /\ setpoint \in Targets
  /\ lastFrame \in 0 .. MaxFrames
  /\ snapshot \in [valid : BOOLEAN, error : Targets, frame : 0 .. MaxFrames]
  /\ cresult \in {"0", "EIO", "EINVAL"}
  /\ updates \in Nat /\ validFrames \in Nat

NoTarget == [a \in Axes |-> 0]

ControlInit ==
  /\ holding \in BOOLEAN /\ tracking \in BOOLEAN
  /\ cpc = "entry"
  /\ command = StopCommand
  /\ encoders = [a \in Axes |-> 0]
  /\ activeTarget = NoTarget /\ setpoint = NoTarget
  /\ lastFrame = 0
  /\ snapshot = [valid |-> FALSE, error |-> NoTarget, frame |-> 0]
  /\ cresult = "0"
  /\ updates = 0 /\ validFrames = 0

CReturn(result) == cpc' = "returned" /\ cresult' = result

\* The camera thread replaces the snapshot under its lock (update_snapshot).
\* A frame with no valid blob has no error.  The code numbers frames from 0 and
\* notes in have_vision_frame_count that one was used; here they are numbered
\* from 1 and 0 stands for none.
PublishSnapshot ==
  /\ snapshot.frame < MaxFrames
  /\ \E valid \in BOOLEAN, error \in Errors :
       /\ snapshot' = [valid |-> valid,
                       error |-> IF valid THEN error ELSE NoTarget,
                       frame |-> snapshot.frame + 1]
       /\ validFrames' = IF valid THEN validFrames + 1 ELSE validFrames
  /\ UNCHANGED <<rigVars, calibrationVars, modeVars, cpc, command, encoders,
                 targetVars, cresult>>

(***************************************************************************)
(* twentysim_controller.c                                                  *)
(***************************************************************************)
Magnitude(n) == IF n < 0 THEN -n ELSE n

\* Mutant of OutputToAxisCommand: the duty is not limited.
OutputToAxisCommandUnlimited(output) ==
  [direction |-> IF output >= 0 THEN POSITIVE ELSE NEGATIVE,
   enable    |-> IF output = 0 THEN 0 ELSE 1,
   pwm       |-> (Magnitude(output) + 2) \div 4]

\* output_to_axis_command, with output in quarters of a tick: lround rounds
\* half a tick up, so an output below that is enabled with a zero duty.
OutputToAxisCommand(output) ==
  LET rounded == (Magnitude(output) + 2) \div 4
  IN  [direction |-> IF output >= 0 THEN POSITIVE ELSE NEGATIVE,
       enable    |-> IF output = 0 THEN 0 ELSE 1,
       pwm       |-> IF rounded > PwmMax THEN PwmMax ELSE rounded]

(***************************************************************************)
(* control_loop_run                                                        *)
(***************************************************************************)
EnterLoop ==
  /\ cpc = "entry" /\ cpc' = "test"
  /\ UNCHANGED <<rigVars, calibrationVars, modeVars, command, encoders,
                 targetVars, cameraVars, cresult>>

\* Mutant of LoopTest: the loop does not look at keep_running.
LoopTestDeaf ==
  /\ cpc = "test" /\ cpc' = "exchange"
  /\ UNCHANGED <<rigVars, calibrationVars, modeVars, command, encoders,
                 targetVars, cameraVars, cresult>>

LoopTest ==
  /\ cpc = "test"
  /\ cpc' = IF keepRunning THEN "exchange" ELSE "finalStop"
  /\ UNCHANGED <<rigVars, calibrationVars, modeVars, command, encoders,
                 targetVars, cameraVars, cresult>>

LoopExchange ==
  /\ cpc = "exchange"
  /\ \/ /\ Exchange(command, TRUE)
        /\ cpc' = "compute" /\ cresult' = cresult
        /\ encoders' = EncoderSample
     \/ /\ Exchange(command, FALSE)
        /\ CReturn("EIO")
        /\ UNCHANGED encoders
  /\ UNCHANGED <<calibrationVars, modeVars, command, targetVars, cameraVars>>

\* Mutant of FreshFrame: the frame number is not compared.
FreshFrameAlways == tracking /\ snapshot.valid

\* A valid snapshot that was not used before (have_vision_frame_count is
\* lastFrame # 0) moves the target relative to where the axes are now.
FreshFrame == tracking /\ snapshot.valid /\ snapshot.frame # lastFrame

FrameTarget ==
  [a \in Axes |-> ClampTarget(a, Angle(a, encoders[a]) + snapshot.error[a])]

Compute ==
  /\ cpc = "compute" /\ cpc' = "pace"
  /\ IF FreshFrame
     THEN /\ activeTarget' = FrameTarget
          /\ lastFrame' = snapshot.frame
          /\ updates' = updates + 1
     ELSE UNCHANGED <<activeTarget, lastFrame, updates>>
  /\ \E scheduled \in HoldTargets :
       setpoint' = [a \in Axes |->
         ClampTarget(a, IF tracking THEN activeTarget'[a] ELSE scheduled[a])]
  /\ \E output \in Outputs :
       command' = [a \in Axes |-> OutputToAxisCommand(output[a])]
  /\ UNCHANGED <<rigVars, calibrationVars, modeVars, encoders, cameraVars, cresult>>

\* Skip the sleep when late, else sleep until the deadline.
Pace ==
  /\ cpc = "pace" /\ cpc' = "test"
  /\ UNCHANGED <<rigVars, calibrationVars, modeVars, command, encoders,
                 targetVars, cameraVars, cresult>>

\* A clock call, the sleep or opening the log fails: the loop returns at once,
\* with whatever command the FPGA holds.
ClockFails ==
  /\ cpc \in {"entry", "exchange", "compute", "pace"}
  /\ CReturn("EINVAL")
  /\ UNCHANGED <<rigVars, calibrationVars, modeVars, command, encoders,
                 targetVars, cameraVars>>

\* Mutant of ControlStop: the loop leaves the stop to its caller.
ControlStopMissing ==
  /\ cpc = "finalStop"
  /\ CReturn("0")
  /\ UNCHANGED <<rigVars, calibrationVars, modeVars, command, encoders, targetVars,
                 cameraVars>>

ControlStop ==
  /\ cpc = "finalStop"
  /\ \/ Exchange(StopCommand, TRUE) /\ CReturn("0")
     \/ Exchange(StopCommand, FALSE) /\ CReturn("EIO")
  /\ UNCHANGED <<calibrationVars, modeVars, command, encoders, targetVars,
                 cameraVars>>

ControlStep ==
  \/ EnterLoop \/ LoopTest \/ LoopExchange \/ Compute \/ Pace \/ ClockFails
  \/ ControlStop
=============================================================================
