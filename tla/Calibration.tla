---------------------------- MODULE Calibration ----------------------------
(***************************************************************************)
(* JiwyCalibration: the home count and measured travel of each axis, and   *)
(* the conversion and clamping that use them.  Angles are kept in encoder  *)
(* counts above home: jiwy_set_*_travel_counts makes the measured travel   *)
(* span the configured angle exactly, so an angle in radians is this count *)
(* times a positive constant, min_rad is 0 and max_rad is the travel.      *)
(***************************************************************************)
EXTENDS JiwyRig

VARIABLES
  homeCount, \* per axis: yaw_home_count, pitch_home_count
  travel     \* per axis: travel_counts given to jiwy_set_*_travel_counts

calibrationVars == <<homeCount, travel>>

CalibrationTypeOK ==
  /\ homeCount \in [Axes -> Int]
  /\ travel \in [Axes -> Nat]

\* jiwy_default_calibration
CalibrationInit ==
  /\ homeCount = [a \in Axes |-> 0]
  /\ travel = [a \in Axes |-> 0]

\* jiwy_yaw_rad and jiwy_pitch_rad
Angle(a, count) == count - homeCount[a]

\* jiwy_clamp_yaw_target and jiwy_clamp_pitch_target
ClampTarget(a, angle) ==
  IF angle < 0 THEN 0 ELSE IF angle > travel[a] THEN travel[a] ELSE angle

\* The calibration that homing to the negative stops is to find.
Calibrated == \A a \in Axes : /\ homeCount[a] = CountAtStop[a]
                              /\ travel[a] = Travel
=============================================================================
