--------------------------- MODULE JiwyMainProofs ---------------------------
(***************************************************************************)
(* The program, from the bottom up: the command frame and one exchange;    *)
(* homing_run by itself, for every travel, motor speed, window, threshold  *)
(* and sample limit: the motors it may enable, the stops it reports, how   *)
(* it reacts to the signal, and the motors when it returns; then the whole *)
(* program for every rig and configuration: what homing_run keeps holds in *)
(* the composition too, what main makes of it when it goes on to the       *)
(* control loop and when it exits, and that all of it is an implementation *)
(* of MotorSafety.                                                         *)
(***************************************************************************)
EXTENDS JiwyMain, TLAPS

(***************************************************************************)
(* What the frame between the program and the FPGA preserves, for every    *)
(* command and every duty limit that fits the 14 bit field.                *)
(***************************************************************************)
\* SPI.v loads three fields of a word; the fields of a word that was put
\* together from three values are those values.
LEMMA WordFields ==
  ASSUME NEW d \in Directions, NEW e \in {0, 1}, NEW p \in UInt14,
         NEW w, w = 32768 * d + 16384 * e + p
  PROVE  LatchAxis(w) = [direction |-> d, enable |-> e, pwm |-> p]
<1>1. w \div 32768 = d
  BY DEF UInt14, Directions, NEGATIVE, POSITIVE
<1>2. (w \div 16384) % 2 = e
  <2>1. w \div 16384 = 2 * d + e
    BY DEF UInt14, Directions, NEGATIVE, POSITIVE
  <2> QED
    BY <2>1 DEF Directions, NEGATIVE, POSITIVE
<1>3. w % 16384 = p
  BY DEF UInt14, Directions, NEGATIVE, POSITIVE
<1> QED
  BY <1>1, <1>2, <1>3 DEF LatchAxis

\* The clamp of protocol_pack_axis: the result fits the field, and a duty
\* within the limit is left alone.
LEMMA LimitedDuty ==
  ASSUME NEW n \in UInt16
  PROVE  /\ n \in Int
         /\ Limited(n) \in UInt14 /\ Limited(n) \in Int
         /\ Limited(n) <= PwmMax
         /\ n <= PwmMax => Limited(n) = n
  BY PwmMaxAssumption DEF UInt16, UInt14, Limited

\* protocol_pack_axis followed by the commit of SPI.v: the direction and the
\* enable flag arrive as they are, the duty limited to MOTOR_PWM_MAX.
THEOREM FrameDelivers ==
  ASSUME NEW c \in AxisCommand
  PROVE  LatchAxis(PackAxis(c)) =
           [direction |-> c.direction, enable |-> c.enable,
            pwm |-> Limited(c.pwm)]
<1>1. c.direction \in Directions /\ c.enable \in {0, 1} /\ c.pwm \in UInt16
  BY DEF AxisCommand
<1>2. Limited(c.pwm) \in UInt14
  BY <1>1, LimitedDuty
<1> QED
  BY <1>1, <1>2, WordFields DEF PackAxis

\* No frame puts a duty above MOTOR_PWM_MAX into the FPGA, and what it puts
\* there fits the registers.
LEMMA LatchedType ==
  ASSUME NEW sent \in [Axes -> AxisCommand]
  PROVE  /\ Latched(sent) \in [Axes -> HeldAxis]
         /\ \A a \in Axes : /\ Latched(sent)[a].pwm <= PwmMax
                            /\ Latched(sent)[a].enable = sent[a].enable
<1>1. ASSUME NEW a \in Axes
      PROVE  /\ Latched(sent)[a] \in HeldAxis
             /\ Latched(sent)[a].pwm <= PwmMax
             /\ Latched(sent)[a].enable = sent[a].enable
  <2> DEFINE c == sent[a]
  <2>1. c \in AxisCommand
    OBVIOUS
  <2>2. Latched(sent)[a] = [direction |-> c.direction, enable |-> c.enable,
                               pwm |-> Limited(c.pwm)]
    BY <2>1, FrameDelivers DEF Latched
  <2>3. c.direction \in Directions /\ c.enable \in {0, 1} /\ c.pwm \in UInt16
    BY <2>1 DEF AxisCommand
  <2>4. Limited(c.pwm) \in UInt14 /\ Limited(c.pwm) <= PwmMax
    BY <2>3, LimitedDuty
  <2> QED
    BY <2>2, <2>3, <2>4 DEF HeldAxis
<1>2. Latched(sent) = [a \in Axes |-> Latched(sent)[a]]
  BY DEF Latched
<1> QED
  BY <1>1, <1>2

\* A command within the limit is held by the FPGA exactly as it was meant.
LEMMA LatchedSame ==
  ASSUME NEW sent \in [Axes -> AxisCommand],
         \A a \in Axes : sent[a].pwm <= PwmMax
  PROVE  Latched(sent) = sent
<1>1. ASSUME NEW a \in Axes
      PROVE  LatchAxis(PackAxis(sent[a])) = sent[a]
  <2> DEFINE c == sent[a]
  <2>1. c \in AxisCommand /\ c.pwm <= PwmMax
    OBVIOUS
  <2>2. c.pwm \in UInt16 /\ c = [direction |-> c.direction, enable |-> c.enable,
                                 pwm |-> c.pwm]
    BY <2>1 DEF AxisCommand
  <2>3. Limited(c.pwm) = c.pwm
    BY <2>1, <2>2, LimitedDuty
  <2>4. LatchAxis(PackAxis(c)) = [direction |-> c.direction, enable |-> c.enable,
                                  pwm |-> Limited(c.pwm)]
    BY <2>1, FrameDelivers
  <2> QED
    BY <2>2, <2>3, <2>4
<1> QED
  BY <1>1 DEF Latched

LEMMA StopType ==
  /\ StopCommand \in [Axes -> AxisCommand]
  /\ MotorsOff(StopCommand)
  /\ Latched(StopCommand) = StopCommand
<1>1. AxisOff \in AxisCommand /\ AxisOff.enable = 0 /\ AxisOff.pwm = 0
  <2>1. 0 \in UInt16
    BY DEF UInt16
  <2> QED
    BY <2>1 DEF AxisOff, AxisCommand, Directions, NEGATIVE
<1>2. StopCommand \in [Axes -> AxisCommand]
  BY <1>1 DEF StopCommand
<1>3. \A a \in Axes : StopCommand[a].pwm <= PwmMax
  <2>1. 0 <= PwmMax
    BY PwmMaxAssumption
  <2> QED
    BY <1>1, <2>1 DEF StopCommand
<1>4. MotorsOff(StopCommand)
  BY <1>1 DEF StopCommand, MotorsOff
<1> QED
  BY <1>2, <1>3, <1>4, LatchedSame

(***************************************************************************)
(* What one exchange does to the rig, for the component proofs to cite.    *)
(***************************************************************************)
LEMMA RigInitType == RigInit => RigTypeOK
<1> SUFFICES ASSUME RigInit PROVE RigTypeOK
  OBVIOUS
<1>1. held \in [Axes -> HeldAxis] /\ position \in [Axes -> 0 .. Travel]
  BY StaleAssumption DEF RigInit
<1>2. keepRunning \in BOOLEAN /\ contacted \in BOOLEAN
  BY DEF RigInit
<1>3. lateDrives \in Nat
  BY DEF RigInit
<1> QED
  BY <1>1, <1>2, <1>3 DEF RigTypeOK

\* An exchange of any command, successful or not, leaves the rig's variables
\* in their types.
LEMMA ExchangeType ==
  ASSUME RigTypeOK,
         NEW sent \in [Axes -> AxisCommand], NEW ok \in BOOLEAN,
         Exchange(sent, ok)
  PROVE  RigTypeOK'
<1>1. held' \in [Axes -> HeldAxis]
  <2>1. Latched(sent) \in [Axes -> HeldAxis]
    BY LatchedType
  <2> QED
    BY <2>1 DEF Exchange, RigTypeOK
<1>2. lateDrives' \in Nat
  BY DEF Exchange, RigTypeOK
<1>3. contacted' \in BOOLEAN /\ keepRunning' \in BOOLEAN
  BY DEF Exchange, RigTypeOK
<1>4. position' \in [Axes -> 0 .. Travel]
  BY DEF Exchange
<1> QED
  BY <1>1, <1>2, <1>3, <1>4 DEF RigTypeOK

\* After a successful exchange the FPGA holds the command and the program has
\* reached it; a failed one leaves it with the old command or the new one.
LEMMA ExchangeHeld ==
  ASSUME NEW sent, NEW ok \in BOOLEAN, Exchange(sent, ok)
  PROVE  /\ ok => held' = Latched(sent) /\ contacted'
         /\ held' = held \/ held' = Latched(sent)
         /\ contacted => contacted'
         /\ keepRunning' = keepRunning
  BY DEF Exchange

\* Only a command that enables a motor, sent after the signal, counts as late.
LEMMA ExchangeLate ==
  ASSUME NEW sent, NEW ok, Exchange(sent, ok), lateDrives \in Nat
  PROVE  /\ keepRunning \/ MotorsOff(sent) => lateDrives' = lateDrives
         /\ lateDrives' \in {lateDrives, lateDrives + 1}
  BY DEF Exchange

\* A stop exchange: the motors are off when it succeeds, and when they were
\* off before.
LEMMA StopExchange ==
  ASSUME NEW ok \in BOOLEAN, Exchange(StopCommand, ok)
  PROVE  /\ ok => MotorsOff(held') /\ contacted'
         /\ MotorsOff(held) => MotorsOff(held')
         /\ held' = held \/ MotorsOff(held')
<1>1. ok => held' = StopCommand /\ contacted'
  BY ExchangeHeld, StopType
<1>2. held' = held \/ held' = StopCommand
  BY ExchangeHeld, StopType
<1> QED
  BY <1>1, <1>2, StopType

LEMMA WordFits ==
  ASSUME NEW w \in Int, 0 <= w, w < 65536
  PROVE  ToInt16(w) \in Int16
  BY DEF ToInt16, Int16

LEMMA CountFits ==
  ASSUME NEW n \in Int
  PROVE  Count16(n) \in Int16
<1>1. n % 65536 \in Int /\ 0 <= n % 65536 /\ n % 65536 < 65536
  OBVIOUS
<1> QED
  BY <1>1, WordFits DEF Count16

LEMMA Int16Int == Int16 \subseteq Int
  BY DEF Int16

\* The type of a sample read from the encoders: the counts fit an int16_t.
LEMMA EncoderCountType ==
  ASSUME NEW a \in Axes, RigTypeOK
  PROVE  EncoderCount(a) \in Int16
<1>1. CountAtStop[a] \in Int
  BY CountAssumption, Int16Int
<1>2. position[a] \in Int
  BY TravelAssumption DEF RigTypeOK
<1>3. CountAtStop[a] + position[a] \in Int
  BY <1>1, <1>2
<1> QED
  BY <1>3, CountFits DEF EncoderCount

(***************************************************************************)
(* The command that pushes an axis.                                        *)
(***************************************************************************)
LEMMA HomeCommandType ==
  ASSUME HomingTypeOK
  PROVE  /\ HomeCommand \in [Axes -> AxisCommand]
         /\ Latched(HomeCommand) = HomeCommand
         /\ \E a \in Axes : HomeCommand[a].enable = 0
<1> DEFINE push == [direction |-> DriveDirection, enable |-> 1, pwm |-> HomingPwm]
<1>1. HomingPwm \in UInt16 /\ HomingPwm <= PwmMax
  BY HomingAssumption, PwmMaxAssumption DEF UInt16
<1>2. DriveDirection \in Directions
  BY DEF DriveDirection, Opposite, HomeDirection, Directions, NEGATIVE, POSITIVE
<1>3. push \in AxisCommand /\ push.pwm <= PwmMax
  BY <1>1, <1>2 DEF AxisCommand
<1> HIDE DEF push
<1>4. HomeCommand = [StopCommand EXCEPT ![axis] = push]
  BY DEF HomeCommand, push
<1>5. axis \in Axes
  BY DEF HomingTypeOK
<1>6. HomeCommand \in [Axes -> AxisCommand]
  BY <1>3, <1>4, <1>5, StopType
<1>7. \A a \in Axes : StopCommand[a].pwm <= PwmMax /\ StopCommand[a].enable = 0
  <2>1. 0 <= PwmMax
    BY PwmMaxAssumption
  <2> QED
    BY <2>1 DEF StopCommand, AxisOff
<1>8. \A a \in Axes : HomeCommand[a].pwm <= PwmMax
  BY <1>3, <1>4, <1>5, <1>7, StopType
<1>9. PICK a \in Axes : a # axis
  BY <1>5 DEF Axes
<1>10. HomeCommand[a].enable = 0
  BY <1>4, <1>7, <1>9, StopType
<1> QED
  BY <1>6, <1>8, <1>10, LatchedSame

(***************************************************************************)
(* Type correctness.  A loop body runs only while its test holds, which is *)
(* what keeps the two counters within their limits.                        *)
(***************************************************************************)
TypeInv ==
  /\ TypeOK
  /\ hpc = "push" => sampleIndex < MaxSamples
  /\ hpc = "settleStop" => settled < Settle

LEMMA TypeInvInit == HomingOnlyInit => TypeInv
<1> SUFFICES ASSUME HomingOnlyInit PROVE TypeInv
  OBVIOUS
<1>1. RigTypeOK
  BY RigInitType DEF HomingOnlyInit
<1>2. CalibrationTypeOK
  BY DEF HomingOnlyInit, CalibrationInit, CalibrationTypeOK
<1>3. HomingTypeOK
  <2>1. 0 \in Int16 /\ 0 \in 0 .. MaxSamples /\ 0 \in 0 .. Settle
    BY HomingAssumption DEF Int16
  <2> QED
    BY <2>1 DEF HomingOnlyInit, HomingInit, HomingTypeOK, HomingLabels, Axes, Legs
<1> QED
  BY <1>1, <1>2, <1>3 DEF TypeInv, TypeOK, HomingOnlyInit, HomingInit

LEMMA DistanceType ==
  ASSUME NEW m \in Int, NEW n \in Int
  PROVE  Distance(m, n) \in Nat
  BY DEF Distance

LEMMA ReadCountsType ==
  ASSUME HomingTypeOK, NEW counts \in ReadCounts, NEW l \in Legs
  PROVE  counts[l] \in Int16
<1>1. counts[l] \in (GarbageCounts \cup {stopCount[k] : k \in Legs}) \ {Unset}
  BY DEF ReadCounts
<1>2. GarbageCounts \subseteq Int16
  BY HomingAssumption
<1>3. \A k \in Legs : stopCount[k] \in Int16 \cup {Unset}
  BY DEF HomingTypeOK
<1> QED
  BY <1>1, <1>2, <1>3

LEMMA TypeInvStep == TypeInv /\ [HomingOnlyNext]_HomingOnlyVars => TypeInv'
<1> SUFFICES ASSUME TypeInv, [HomingOnlyNext]_HomingOnlyVars PROVE TypeInv'
  OBVIOUS
<1> USE DEF TypeInv, TypeOK
<1>1. CASE StartLeg
  <2>1. PICK ok \in BOOLEAN : Exchange(StopCommand, ok)
    BY <1>1 DEF StartLeg
  <2>2. RigTypeOK'
    BY <2>1, ExchangeType, StopType
  <2>3. CalibrationTypeOK'
    BY <1>1 DEF StartLeg, calibrationVars, CalibrationTypeOK
  <2>4. lastMoving' \in Int16
    BY <1>1, EncoderCountType DEF StartLeg, HomingTypeOK
  <2>5. /\ hpc' \in {"drive", "returned"}
        /\ hresult' \in {"0", "EIO", "ETIMEDOUT", "ERANGE"}
    BY <1>1 DEF StartLeg, Return, HomingTypeOK
  <2>6. sampleIndex' \in 0 .. MaxSamples /\ stagnant' \in Nat
    BY <1>1, HomingAssumption DEF StartLeg
  <2> QED
    BY <1>1, <2>2, <2>3, <2>4, <2>5, <2>6 DEF StartLeg, HomingTypeOK, HomingLabels
<1>2. CASE DriveTest
  <2>1. RigTypeOK' /\ CalibrationTypeOK'
    BY <1>2 DEF DriveTest, rigVars, RigTypeOK, calibrationVars, CalibrationTypeOK
  <2>2. settled' \in 0 .. Settle
    BY <1>2, HomingAssumption DEF DriveTest
  <2>3. /\ hpc' \in {"push", "settle"}
        /\ hpc' = "push" => sampleIndex' < MaxSamples
    BY <1>2 DEF DriveTest, driveVars
  <2> QED
    BY <1>2, <2>1, <2>2, <2>3 DEF DriveTest, driveVars, HomingTypeOK, HomingLabels
<1>3. CASE PushOk
  <2>1. RigTypeOK'
    BY <1>3, ExchangeType, HomeCommandType DEF PushOk
  <2>2. CalibrationTypeOK'
    BY <1>3 DEF PushOk, calibrationVars, CalibrationTypeOK
  <2>3. EncoderCount(axis) \in Int16
    BY EncoderCountType DEF HomingTypeOK
  <2>4. lastMoving' \in Int16 /\ stagnant' \in Nat
    BY <1>3, <2>3 DEF PushOk, StagnantAfter, HomingTypeOK
  <2>5. settled' \in 0 .. Settle
    BY <1>3, HomingAssumption DEF PushOk
  <2>6. sampleIndex' \in 0 .. MaxSamples
    BY <1>3, HomingAssumption DEF PushOk, HomingTypeOK
  <2>7. stopCount' \in [Legs -> Int16 \cup {Unset}]
    BY <1>3, <2>3 DEF PushOk, HomingTypeOK
  <2>8. hpc' \in {"settle", "drive"}
    BY <1>3 DEF PushOk
  <2> QED
    BY <1>3, <2>1, <2>2, <2>4, <2>5, <2>6, <2>7, <2>8
       DEF PushOk, HomingTypeOK, HomingLabels
<1>4. CASE PushFails
  <2>1. RigTypeOK'
    BY <1>4, ExchangeType, HomeCommandType DEF PushFails
  <2> QED
    BY <1>4, <2>1 DEF PushFails, Return, calibrationVars, CalibrationTypeOK,
       driveVars, HomingTypeOK, HomingLabels
<1>5. CASE SettleTest
  <2>1. RigTypeOK' /\ CalibrationTypeOK'
    BY <1>5 DEF SettleTest, rigVars, RigTypeOK, calibrationVars, CalibrationTypeOK
  <2>2. /\ hpc' \in {"settleStop", "legDone", "gaveUp"}
        /\ hpc' = "settleStop" => settled' < Settle
    BY <1>5 DEF SettleTest
  <2> QED
    BY <1>5, <2>1, <2>2 DEF SettleTest, driveVars, HomingTypeOK, HomingLabels
<1>6. CASE SettleStop
  <2>1. PICK ok \in BOOLEAN : Exchange(StopCommand, ok)
    BY <1>6 DEF SettleStop
  <2>2. RigTypeOK'
    BY <2>1, ExchangeType, StopType
  <2>3. settled' \in 0 .. Settle
    <3>1. settled' \in {settled, settled + 1}
      BY <1>6 DEF SettleStop
    <3>2. settled \in 0 .. Settle /\ settled < Settle
      BY <1>6 DEF SettleStop, HomingTypeOK
    <3> QED
      BY <3>1, <3>2, HomingAssumption
  <2>4. /\ hpc' \in {"settle", "returned"}
        /\ hresult' \in {"0", "EIO", "ETIMEDOUT", "ERANGE"}
    BY <1>6 DEF SettleStop, Return, HomingTypeOK
  <2> QED
    BY <1>6, <2>2, <2>3, <2>4 DEF SettleStop, calibrationVars, CalibrationTypeOK,
       driveVars, HomingTypeOK, HomingLabels
<1>7. CASE GaveUp
  <2>1. RigTypeOK' /\ CalibrationTypeOK'
    BY <1>7 DEF GaveUp, rigVars, RigTypeOK, calibrationVars, CalibrationTypeOK
  <2> QED
    BY <1>7, <2>1 DEF GaveUp, Return, driveVars, HomingTypeOK, HomingLabels
<1>8. CASE LegDone
  <2>1. RigTypeOK' /\ CalibrationTypeOK'
    BY <1>8 DEF LegDone, rigVars, RigTypeOK, calibrationVars, CalibrationTypeOK
  <2> QED
    BY <1>8, <2>1 DEF LegDone, driveVars, HomingTypeOK, HomingLabels, Legs
<1>9. CASE Measure
  <2>1. RigTypeOK'
    BY <1>9 DEF Measure, rigVars, RigTypeOK
  <2> DEFINE span(c) == Distance(c["away"], c["home"])
  <2>2. PICK c \in ReadCounts :
          IF span(c) = 0
          THEN /\ Return("ERANGE")
               /\ UNCHANGED <<calibrationVars, axis, leg, stopCount>>
          ELSE /\ homeCount' = [homeCount EXCEPT ![axis] = c["home"]]
               /\ travel' = [travel EXCEPT ![axis] = span(c)]
               /\ stopCount' = [l \in Legs |-> Unset]
               /\ axis' = "pitch" /\ leg' = "away" /\ hresult' = hresult
               /\ hpc' = IF axis = "yaw" THEN "start" ELSE "finalStop"
    BY <1>9 DEF Measure
  <2>3. c["home"] \in Int /\ span(c) \in Nat
    BY ReadCountsType, DistanceType, Int16Int DEF Legs
  <2> HIDE DEF span
  <2>4. CASE span(c) = 0
    BY <1>9, <2>1, <2>2, <2>4 DEF Measure, Return, calibrationVars,
       CalibrationTypeOK, driveVars, HomingTypeOK, HomingLabels
  <2>5. CASE span(c) # 0
    <3>1. CalibrationTypeOK'
      BY <2>2, <2>3, <2>5 DEF CalibrationTypeOK
    <3> QED
      BY <1>9, <2>1, <2>2, <2>5, <3>1 DEF Measure, driveVars, HomingTypeOK,
         HomingLabels, Axes, Legs
  <2> QED
    BY <2>4, <2>5
<1>10. CASE FinalStop
  <2>1. PICK ok \in BOOLEAN : Exchange(StopCommand, ok)
    BY <1>10 DEF FinalStop
  <2>2. RigTypeOK'
    BY <2>1, ExchangeType, StopType
  <2> QED
    BY <1>10, <2>2 DEF FinalStop, Return, calibrationVars, CalibrationTypeOK,
       driveVars, HomingTypeOK, HomingLabels
<1>11. CASE SignalHoming
  <2>1. RigTypeOK'
    BY <1>11 DEF SignalHoming, Signal, RigTypeOK
  <2> QED
    BY <1>11, <2>1 DEF SignalHoming, calibrationVars, CalibrationTypeOK,
       homingVars, driveVars, HomingTypeOK
<1>12. CASE UNCHANGED HomingOnlyVars
  BY <1>12 DEF HomingOnlyVars, rigVars, RigTypeOK, calibrationVars,
     CalibrationTypeOK, homingVars, driveVars, HomingTypeOK
<1> QED
  BY <1>1, <1>2, <1>3, <1>4, <1>5, <1>6, <1>7, <1>8, <1>9, <1>10, <1>11, <1>12
     DEF HomingOnlyNext, HomingStep, HomingReturned

\* The type invariant of homing_run, for every rig and every configuration.
THEOREM HomingTypeCorrect == HomingSpec => []TypeOK
<1>1. HomingSpec => []TypeInv
  BY TypeInvInit, TypeInvStep, PTL DEF HomingSpec
<1>2. TypeInv => TypeOK
  BY DEF TypeInv
<1> QED
  BY <1>1, <1>2, PTL

(***************************************************************************)
(* The motors.  The invariant says more than OneMotorAtATime: from its     *)
(* first stop exchange to its end a drive can only hold a stop or its own  *)
(* push, so whatever it sends next is the same push or a stop.             *)
(***************************************************************************)
DriveLabels == {"drive", "push", "settle", "settleStop", "gaveUp"}

OneEnabled == contacted => \E a \in Axes : held[a].enable = 0

MotorInv ==
  /\ TypeInv
  /\ OneEnabled
  /\ hpc \in DriveLabels => contacted /\ (MotorsOff(held) \/ held = HomeCommand)

LEMMA MotorInvInit == HomingOnlyInit => MotorInv
  BY TypeInvInit DEF MotorInv, OneEnabled, HomingOnlyInit, RigInit,
     HomingInit, DriveLabels

LEMMA OffIsOne == ASSUME NEW sent, MotorsOff(sent)
                  PROVE  \E a \in Axes : sent[a].enable = 0
  BY DEF MotorsOff, Axes

\* What a step of homing can do to the held command: keep it, replace it by a
\* stop, or push while it holds this same push or a stop.
LEMMA HeldStep ==
  ASSUME MotorInv, [HomingOnlyNext]_HomingOnlyVars
  PROVE  \/ held' = held
         \/ MotorsOff(held')
         \/ hpc = "push" /\ held' = HomeCommand
<1>1. CASE StartLeg \/ SettleStop \/ FinalStop
  <2>1. PICK ok \in BOOLEAN : Exchange(StopCommand, ok)
    BY <1>1 DEF StartLeg, SettleStop, FinalStop
  <2> QED
    BY <2>1, StopExchange
<1>2. CASE PushOk \/ PushFails
  <2>1. PICK ok \in BOOLEAN : Exchange(HomeCommand, ok)
    BY <1>2 DEF PushOk, PushFails
  <2>2. Latched(HomeCommand) = HomeCommand
    BY HomeCommandType DEF MotorInv, TypeInv, TypeOK
  <2> QED
    BY <1>2, <2>1, <2>2, ExchangeHeld DEF PushOk, PushFails
<1>3. CASE \/ DriveTest \/ SettleTest \/ GaveUp \/ LegDone \/ Measure
           \/ UNCHANGED HomingOnlyVars
  BY <1>3 DEF DriveTest, SettleTest, GaveUp, LegDone, Measure, HomingOnlyVars,
     rigVars
<1>4. CASE SignalHoming
  BY <1>4 DEF SignalHoming, Signal
<1> QED
  BY <1>1, <1>2, <1>3, <1>4 DEF HomingOnlyNext, HomingStep, HomingReturned

LEMMA MotorInvStep == MotorInv /\ [HomingOnlyNext]_HomingOnlyVars => MotorInv'
<1> SUFFICES ASSUME MotorInv, [HomingOnlyNext]_HomingOnlyVars PROVE MotorInv'
  OBVIOUS
<1>1. TypeInv'
  BY TypeInvStep DEF MotorInv
<1>2. /\ Latched(HomeCommand) = HomeCommand
      /\ \E a \in Axes : HomeCommand[a].enable = 0
  BY HomeCommandType DEF MotorInv, TypeInv, TypeOK
<1> DEFINE Shape == hpc \in DriveLabels =>
                  contacted /\ (MotorsOff(held) \/ held = HomeCommand)
<1>3. OneEnabled' /\ Shape'
  <2>1. CASE StartLeg
    <3>1. CASE Exchange(StopCommand, TRUE)
      <4>1. MotorsOff(held') /\ contacted'
        BY <3>1, StopExchange
      <4> QED
        BY <4>1, OffIsOne DEF OneEnabled, MotorsOff, Axes
    <3>2. CASE Exchange(StopCommand, FALSE) /\ Return("EIO")
      <4>1. held' = held \/ MotorsOff(held')
        BY <3>2, StopExchange
      <4>2. contacted' => contacted
        BY <3>2 DEF Exchange
      <4>3. hpc' \notin DriveLabels
        BY <3>2 DEF Return, DriveLabels
      <4> QED
        BY <4>1, <4>2, <4>3, OffIsOne DEF MotorInv, OneEnabled, MotorsOff, Axes
    <3> QED
      BY <2>1, <3>1, <3>2 DEF StartLeg
  <2>2. CASE SettleStop \/ FinalStop
    <3>1. PICK ok \in BOOLEAN : Exchange(StopCommand, ok)
      BY <2>2 DEF SettleStop, FinalStop
    <3>2. /\ held' = held \/ MotorsOff(held')
          /\ contacted' = (contacted \/ ok)
          /\ ok => MotorsOff(held')
      BY <3>1, StopExchange DEF Exchange
    <3>3. hpc' \in DriveLabels => hpc \in DriveLabels /\ axis' = axis /\ leg' = leg
      BY <2>2 DEF SettleStop, FinalStop, Return, DriveLabels
    <3>4. hpc' \in DriveLabels => HomeCommand' = HomeCommand
      BY <3>3 DEF HomeCommand, DriveDirection
    <3> QED
      BY <3>2, <3>3, <3>4, OffIsOne DEF MotorInv, OneEnabled, MotorsOff, Axes
  <2>3. CASE PushOk \/ PushFails
    <3>1. PICK ok \in BOOLEAN : Exchange(HomeCommand, ok)
      BY <2>3 DEF PushOk, PushFails
    <3>2. /\ held' = held \/ held' = HomeCommand
          /\ contacted'
      BY <1>2, <2>3, <3>1, ExchangeHeld DEF PushOk, PushFails, MotorInv, DriveLabels
    <3>3. HomeCommand' = HomeCommand
      BY <2>3 DEF PushOk, PushFails, HomeCommand, DriveDirection
    <3>4. contacted /\ (MotorsOff(held) \/ held = HomeCommand)
      BY <2>3 DEF PushOk, PushFails, MotorInv, DriveLabels
    <3> QED
      BY <1>2, <3>2, <3>3, <3>4, OffIsOne DEF OneEnabled, MotorsOff
  <2>4. CASE DriveTest \/ SettleTest \/ GaveUp \/ UNCHANGED HomingOnlyVars
    <3>1. /\ held' = held /\ contacted' = contacted
          /\ axis' = axis /\ leg' = leg
          /\ hpc' \in DriveLabels => hpc \in DriveLabels
      BY <2>4 DEF DriveTest, SettleTest, GaveUp, Return, HomingOnlyVars, rigVars,
         homingVars, DriveLabels
    <3>2. HomeCommand' = HomeCommand
      BY <3>1 DEF HomeCommand, DriveDirection
    <3> QED
      BY <3>1, <3>2 DEF MotorInv, OneEnabled, MotorsOff
  <2>5. CASE LegDone \/ Measure
    <3>1. held' = held /\ contacted' = contacted /\ hpc' \notin DriveLabels
      BY <2>5 DEF LegDone, Measure, Return, rigVars, DriveLabels
    <3> QED
      BY <3>1 DEF MotorInv, OneEnabled
  <2>6. CASE SignalHoming
    <3>1. /\ held' = held /\ contacted' = contacted
          /\ axis' = axis /\ leg' = leg /\ hpc' = hpc
      BY <2>6 DEF SignalHoming, Signal, homingVars
    <3>2. HomeCommand' = HomeCommand
      BY <3>1 DEF HomeCommand, DriveDirection
    <3> QED
      BY <3>1, <3>2 DEF MotorInv, OneEnabled, MotorsOff
  <2> QED
    BY <2>1, <2>2, <2>3, <2>4, <2>5, <2>6
       DEF HomingOnlyNext, HomingStep, HomingReturned
<1> QED
  BY <1>1, <1>3 DEF MotorInv

\* homing_run never has both motors enabled in the FPGA once it has reached it.
THEOREM HomingOneMotor == HomingSpec => []OneMotorAtATime
<1>1. HomingSpec => []MotorInv
  BY MotorInvInit, MotorInvStep, PTL DEF HomingSpec
<1>2. MotorInv => OneMotorAtATime
  BY DEF MotorInv, OneEnabled, OneMotorAtATime
<1> QED
  BY <1>1, <1>2, PTL

\* Between two different pushes the FPGA holds a stop.
THEOREM HomingStopBetweenPushes == HomingSpec => StopBetweenPushes
<1>1. HomingSpec => []MotorInv
  BY MotorInvInit, MotorInvStep, PTL DEF HomingSpec
<1>2. MotorInv /\ [HomingOnlyNext]_HomingOnlyVars
        => (contacted /\ Energised /\ hpc # "idle" /\ held' # held => MotorsOff(held'))
  <2> SUFFICES ASSUME MotorInv, [HomingOnlyNext]_HomingOnlyVars,
                      Energised, held' # held
               PROVE  MotorsOff(held')
    OBVIOUS
  <2>1. CASE hpc = "push" /\ held' = HomeCommand
    <3>1. held = HomeCommand
      BY <2>1 DEF MotorInv, DriveLabels, Energised
    <3> QED
      BY <2>1, <3>1
  <2> QED
    BY <2>1, HeldStep
<1> QED
  BY <1>1, <1>2, PTL DEF HomingSpec, StopBetweenPushes

(***************************************************************************)
(* The stops.  A stagnant encoder shows a stop only if the slowest axis    *)
(* moves by the threshold within a window.  The invariant follows a drive: *)
(* until it is at its stop the axis has moved on from the last moving      *)
(* count by MinStep for every sample counted as stagnant, or for every     *)
(* sample of the drive, the first of which reads the count it started from.*)
(***************************************************************************)
Count(a) == CountAtStop[a] + position[a]

\* The counts from the last moving one to the present, in the drive's direction.
Moved == IF DriveDirection = NEGATIVE THEN lastMoving - Count(axis)
         ELSE Count(axis) - lastMoving

AtEnd == position[axis] = IF DriveDirection = NEGATIVE THEN 0 ELSE Travel

Advances ==
  /\ Moved >= 0
  /\ \/ AtEnd
     \/ Moved >= sampleIndex * MinStep
     \/ Moved >= (stagnant + 1) * MinStep

\* An axis at its home stop that is not driven away from it.
Resting(a) ==
  /\ position[a] = 0
  /\ held[a].enable = 1 => held[a].direction = NEGATIVE

AxisDone(a) ==
  homeCount[a] = CountAtStop[a] /\ travel[a] = Travel /\ Resting(a)

CountsReal ==
  /\ stopCount["away"] # Unset => stopCount["away"] = CountAtStop[axis] + Travel
  /\ stopCount["home"] # Unset => stopCount["home"] = CountAtStop[axis]

HomeCountLabels ==
  {"settle", "settleStop", "gaveUp", "legDone", "measure", "returned"}

HomeCountRests ==
  stopCount["home"] # Unset =>
    leg = "home" /\ hpc \in HomeCountLabels /\ Resting(axis)

\* What has been measured, as long as no signal came.
Measured ==
  /\ hpc = "legDone" => stopCount[leg] # Unset
  /\ leg = "home" => stopCount["away"] # Unset
  /\ hpc = "measure" => leg = "home" /\ stopCount["home"] # Unset
  /\ axis = "pitch" => AxisDone("yaw")
  /\ hpc = "finalStop" \/ (hpc = "returned" /\ hresult = "0")
       => axis = "pitch" /\ AxisDone("pitch")

StopsInv ==
  /\ MotorInv
  /\ hpc \in {"drive", "push"} => Advances
  /\ CountsReal
  /\ HomeCountRests
  /\ keepRunning => Measured

\* Multiples of a natural number.
LEMMA Multiples ==
  ASSUME NEW s \in Nat, NEW m \in Nat, NEW n \in Nat, m <= n
  PROVE  /\ m * s \in Nat /\ n * s \in Nat /\ m * s <= n * s
         /\ (n + 1) * s = n * s + s /\ 0 * s = 0 /\ 1 * s = s
<1>1. (n - m) * s >= 0 /\ (n - m) * s = n * s - m * s
  OBVIOUS
<1> QED
  BY <1>1

\* Between the stops the 16 bit count of an axis is the count itself.
LEMMA CountIs ==
  ASSUME NEW a \in Axes, RigTypeOK
  PROVE  /\ Count(a) \in Int /\ EncoderCount(a) = Count(a)
         /\ CountAtStop[a] \in Int /\ position[a] \in 0 .. Travel
<1>1. CountAtStop[a] \in Int16 /\ CountAtStop[a] + Travel \in Int16
  BY CountAssumption
<1>2. position[a] \in 0 .. Travel
  BY DEF RigTypeOK
<1>3. Count(a) \in Int16
  BY <1>1, <1>2, TravelAssumption DEF Count, Int16
<1>4. ASSUME NEW n \in Int16 PROVE Count16(n) = n
  BY DEF Int16, Count16, ToInt16
<1> QED
  BY <1>1, <1>2, <1>3, <1>4, Int16Int DEF EncoderCount, Count

\* A driven axis moves in its direction, by MinStep at least or to its stop.
LEMMA ReachMoves ==
  ASSUME NEW p \in 0 .. Travel, NEW c, Driving(c),
         c.direction \in Directions, NEW q \in Reach(p, c)
  PROVE  IF c.direction = NEGATIVE
         THEN q <= p /\ (q = 0 \/ q <= p - MinStep)
         ELSE q >= p /\ (q = Travel \/ q >= p + MinStep)
<1>1. PICK s \in MinStep .. MaxStep :
        IF c.direction = NEGATIVE THEN q = IF p > s THEN p - s ELSE 0
        ELSE q = IF p + s < Travel THEN p + s ELSE Travel
  BY DEF Reach
<1>2. s \in Int /\ s >= MinStep /\ MinStep \in Nat /\ p \in Int /\ Travel \in Int
  BY StepAssumption, TravelAssumption
<1> QED
  BY <1>1, <1>2

\* An axis at rest stays so under a command that does not drive it away.
LEMMA RestStays ==
  ASSUME NEW a \in Axes, RigTypeOK, Resting(a), NEW sent, NEW ok \in BOOLEAN,
         Exchange(sent, ok),
         Latched(sent)[a].enable = 1 => Latched(sent)[a].direction = NEGATIVE
  PROVE  Resting(a)'
<1>1. held'[a].enable = 1 => held'[a].direction = NEGATIVE
  BY ExchangeHeld DEF Resting
<1>2. position'[a] \in Reach(position[a], held'[a]) /\ position[a] = 0
  BY DEF Exchange, Resting
<1>3. CASE ~Driving(held'[a])
  BY <1>1, <1>2, <1>3 DEF Reach, Resting
<1>4. CASE Driving(held'[a])
  <2>1. held'[a].direction = NEGATIVE /\ held'[a].direction \in Directions
    BY <1>1, <1>4 DEF Driving, Directions
  <2>2. position'[a] <= 0 /\ position'[a] \in 0 .. Travel /\ 0 \in 0 .. Travel
    BY <1>2, <1>4, <2>1, ReachMoves, TravelAssumption DEF RigTypeOK, Exchange
  <2> QED
    BY <1>1, <2>2, TravelAssumption DEF Resting
<1> QED
  BY <1>3, <1>4

\* A push moves its axis on, or leaves it at the stop.
LEMMA PushMoves ==
  ASSUME TypeOK, PushOk,
         NEW gain, gain = IF DriveDirection = NEGATIVE
                          THEN position[axis] - position'[axis]
                          ELSE position'[axis] - position[axis]
  PROVE  /\ gain \in Nat /\ (AtEnd' \/ gain >= MinStep) /\ (AtEnd => AtEnd')
         /\ axis' = axis /\ DriveDirection' = DriveDirection
         /\ position'[axis] \in 0 .. Travel
<1> DEFINE c == HomeCommand[axis]
<1>1. axis \in Axes /\ axis' = axis /\ leg' = leg
  BY DEF TypeOK, HomingTypeOK, PushOk
<1>2. DriveDirection' = DriveDirection /\ DriveDirection \in Directions
  BY <1>1 DEF DriveDirection, Opposite, HomeDirection, Directions, NEGATIVE, POSITIVE
<1>3. c.direction = DriveDirection /\ Driving(c)
  <2>1. c = [direction |-> DriveDirection, enable |-> 1, pwm |-> HomingPwm]
    BY <1>1 DEF HomeCommand, StopCommand
  <2>2. HomingPwm > 0
    BY HomingAssumption, PwmMaxAssumption
  <2> QED
    BY <2>1, <2>2 DEF Driving
<1>4. held' = HomeCommand
  BY HomeCommandType DEF PushOk, Exchange, TypeOK
<1>5. /\ position'[axis] \in Reach(position[axis], c)
      /\ position[axis] \in 0 .. Travel /\ position'[axis] \in 0 .. Travel
  BY <1>1, <1>4 DEF PushOk, Exchange, TypeOK, RigTypeOK
<1> HIDE DEF c
<1>6. IF DriveDirection = NEGATIVE
      THEN /\ position'[axis] <= position[axis]
           /\ position'[axis] = 0 \/ position'[axis] <= position[axis] - MinStep
      ELSE /\ position'[axis] >= position[axis]
           /\ position'[axis] = Travel \/ position'[axis] >= position[axis] + MinStep
  BY <1>2, <1>3, <1>5, ReachMoves
<1>7. position[axis] \in Int /\ position'[axis] \in Int /\ Travel \in Nat /\ MinStep \in Nat
  BY <1>5, TravelAssumption, StepAssumption
<1>8. AtEnd' <=> position'[axis] = IF DriveDirection = NEGATIVE THEN 0 ELSE Travel
  <2>1. AtEnd' <=> position'[axis'] = IF DriveDirection' = NEGATIVE THEN 0 ELSE Travel
    BY DEF AtEnd
  <2> QED
    BY <1>1, <1>2, <2>1
<1>9. gain \in Nat /\ (AtEnd' \/ gain >= MinStep)
  BY <1>6, <1>7, <1>8
<1>10. AtEnd => AtEnd'
  BY <1>5, <1>6, <1>7, <1>8 DEF AtEnd
<1> QED
  BY <1>1, <1>2, <1>5, <1>9, <1>10

\* How far a sample is from the last moving count.
LEMMA DistanceIsMoved ==
  ASSUME TypeOK, Advances
  PROVE  Distance(EncoderCount(axis), lastMoving) = Moved /\ Moved \in Nat
<1>1. EncoderCount(axis) = Count(axis) /\ Count(axis) \in Int
  BY CountIs DEF TypeOK, HomingTypeOK
<1>2. lastMoving \in Int
  BY Int16Int DEF TypeOK, HomingTypeOK
<1> QED
  BY <1>1, <1>2 DEF Advances, Moved, Distance

\* A drive that goes on keeps the relation of counts and samples.
LEMMA AdvancesStep ==
  ASSUME TypeOK, Advances, PushOk, hpc' = "drive"
  PROVE  Advances'
<1> DEFINE gain == IF DriveDirection = NEGATIVE
                   THEN position[axis] - position'[axis]
                   ELSE position'[axis] - position[axis]
           count == EncoderCount(axis)
<1>1. /\ gain \in Nat /\ (AtEnd' \/ gain >= MinStep) /\ (AtEnd => AtEnd')
      /\ axis' = axis /\ DriveDirection' = DriveDirection
      /\ position'[axis] \in 0 .. Travel
  BY PushMoves
<1>2. count = Count(axis) /\ CountAtStop[axis] \in Int /\ position[axis] \in 0 .. Travel
  BY CountIs DEF TypeOK, HomingTypeOK
<1>3. Count(axis)' = CountAtStop[axis] + position'[axis]
  BY <1>1 DEF Count
<1>4. /\ sampleIndex \in Nat /\ stagnant \in Nat /\ MinStep \in Nat
      /\ lastMoving \in Int /\ Threshold \in Nat
  BY HomingAssumption, StepAssumption, Int16Int DEF TypeOK, HomingTypeOK
<1>5. /\ sampleIndex' = sampleIndex + 1
      /\ stagnant' = StagnantAfter(count)
      /\ lastMoving' = IF StagnantAfter(count) = 0 THEN count ELSE lastMoving
  BY DEF PushOk
<1>6. position[axis] \in Int /\ position'[axis] \in Int
  BY <1>1, <1>2, TravelAssumption
<1>7. CASE Distance(count, lastMoving) >= Threshold
  <2>1. stagnant' = 0 /\ lastMoving' = Count(axis)
    BY <1>2, <1>5, <1>7 DEF StagnantAfter
  <2>2. Moved' = gain
    BY <1>1, <1>2, <1>3, <1>6, <2>1 DEF Moved, Count
  <2>3. (stagnant' + 1) * MinStep = MinStep
    BY <1>4, <2>1
  <2> HIDE DEF gain
  <2> QED
    BY <1>1, <1>4, <2>2, <2>3 DEF Advances
<1>8. CASE ~(Distance(count, lastMoving) >= Threshold)
  <2>1. stagnant' = stagnant + 1 /\ lastMoving' = lastMoving
    BY <1>4, <1>5, <1>8 DEF StagnantAfter
  <2>2. Moved' = Moved + gain
    BY <1>1, <1>2, <1>3, <1>4, <1>6, <2>1 DEF Moved, Count
  <2>3. /\ sampleIndex' * MinStep = sampleIndex * MinStep + MinStep
        /\ sampleIndex * MinStep \in Nat
    BY <1>4, <1>5, Multiples
  <2>4. /\ (stagnant' + 1) * MinStep = (stagnant + 1) * MinStep + MinStep
        /\ (stagnant + 1) * MinStep \in Nat
    BY <1>4, <2>1, Multiples
  <2>5. Moved \in Nat
    BY DistanceIsMoved
  <2> DEFINE x == sampleIndex * MinStep
             y == (stagnant + 1) * MinStep
             m == Moved
  <2>6. AtEnd \/ m >= x \/ m >= y
    BY DEF Advances
  <2>7. /\ Moved' = m + gain /\ m \in Nat /\ x \in Nat /\ y \in Nat
        /\ sampleIndex' * MinStep = x + MinStep
        /\ (stagnant' + 1) * MinStep = y + MinStep
    BY <2>2, <2>3, <2>4, <2>5
  <2> HIDE DEF gain, x, y, m
  <2>8. m + gain >= 0 /\ (AtEnd' \/ m + gain >= x + MinStep \/ m + gain >= y + MinStep)
    BY <1>1, <1>4, <2>6, <2>7
  <2> QED
    BY <2>7, <2>8 DEF Advances
<1> QED
  BY <1>7, <1>8

\* An axis whose encoder stagnates is at the stop it is driven to, as otherwise
\* it has moved by the threshold.
LEMMA StalledAtEnd ==
  ASSUME TypeOK, Advances, Stalled(EncoderCount(axis)), Threshold <= Window * MinStep
  PROVE  AtEnd
<1>1. /\ sampleIndex \in Nat /\ stagnant \in Nat /\ MinStep \in Nat
      /\ Window \in Nat /\ Window > 0 /\ Threshold \in Nat
  BY HomingAssumption, StepAssumption DEF TypeOK, HomingTypeOK
<1>2. Moved \in Nat /\ Distance(EncoderCount(axis), lastMoving) = Moved
  BY DistanceIsMoved
<1>3. /\ sampleIndex >= Window /\ stagnant + 1 >= Window
      /\ ~(Moved >= Threshold)
  BY <1>1, <1>2 DEF Stalled, StagnantAfter
<1>4. /\ Window * MinStep <= sampleIndex * MinStep
      /\ Window * MinStep <= (stagnant + 1) * MinStep
      /\ Window * MinStep \in Nat /\ sampleIndex * MinStep \in Nat
      /\ (stagnant + 1) * MinStep \in Nat
  BY <1>1, <1>3, Multiples
<1> DEFINE w == Window * MinStep
           x == sampleIndex * MinStep
           y == (stagnant + 1) * MinStep
<1>5. /\ w <= x /\ w <= y /\ w \in Nat /\ x \in Nat /\ y \in Nat
      /\ Threshold <= w
      /\ AtEnd \/ Moved >= x \/ Moved >= y
  BY <1>4 DEF Advances
<1> HIDE DEF w, x, y
<1> QED
  BY <1>1, <1>2, <1>3, <1>5

\* A stop exchange, and a push of the other axis, leave a finished axis alone.
LEMMA DoneStays ==
  ASSUME NEW a \in Axes, RigTypeOK, AxisDone(a), UNCHANGED calibrationVars,
         NEW sent, NEW ok \in BOOLEAN, Exchange(sent, ok),
         Latched(sent)[a].enable = 0
  PROVE  AxisDone(a)'
<1>1. Resting(a)'
  BY RestStays DEF AxisDone
<1> QED
  BY <1>1 DEF AxisDone, calibrationVars

LEMMA StopsInvInit == HomingOnlyInit => StopsInv
<1> SUFFICES ASSUME HomingOnlyInit PROVE StopsInv
  OBVIOUS
<1>1. /\ hpc = "start" /\ axis = "yaw" /\ leg = "away"
      /\ stopCount = [l \in Legs |-> Unset]
  BY DEF HomingOnlyInit, HomingInit
<1>2. stopCount["away"] = Unset /\ stopCount["home"] = Unset
  BY <1>1 DEF Legs
<1> QED
  BY <1>1, <1>2, MotorInvInit DEF StopsInv, CountsReal, HomeCountRests, Measured

\* An exchange after which no drive is under way, of a command that pushes
\* neither a finished axis nor one that rests.
LEMMA QuietExchange ==
  ASSUME StopsInv, NEW sent, NEW ok \in BOOLEAN, Exchange(sent, ok),
         \A a \in Axes : Latched(sent)[a].enable = 0,
         UNCHANGED <<calibrationVars, axis, leg, stopCount>>,
         hpc' \notin {"drive", "push", "legDone", "measure", "finalStop"},
         hpc \in HomeCountLabels => hpc' \in HomeCountLabels,
         ~(hpc' = "returned" /\ hresult' = "0")
  PROVE  CountsReal' /\ HomeCountRests' /\ (keepRunning' => Measured')
<1>1. axis \in Axes /\ RigTypeOK
  BY DEF StopsInv, MotorInv, TypeInv, TypeOK, HomingTypeOK
<1>2. CountsReal'
  BY DEF StopsInv, CountsReal
<1>3. HomeCountRests'
  <2>1. Resting(axis) => Resting(axis)'
    BY <1>1, RestStays
  <2> QED
    BY <2>1 DEF StopsInv, HomeCountRests, Resting
<1>4. keepRunning' => Measured'
  <2>1. keepRunning' = keepRunning
    BY ExchangeHeld
  <2>2. AxisDone("yaw") => AxisDone("yaw")'
    BY <1>1, DoneStays DEF Axes
  <2> QED
    BY <2>1, <2>2 DEF StopsInv, Measured
<1> QED
  BY <1>2, <1>3, <1>4

LEMMA StopIsQuiet == \A a \in Axes : Latched(StopCommand)[a].enable = 0
  BY StopType DEF MotorsOff

LEMMA StopsInvStep ==
  ASSUME Threshold <= Window * MinStep
  PROVE  StopsInv /\ [HomingOnlyNext]_HomingOnlyVars => StopsInv'
<1> SUFFICES ASSUME StopsInv, [HomingOnlyNext]_HomingOnlyVars PROVE StopsInv'
  OBVIOUS
<1>1. MotorInv'
  BY MotorInvStep DEF StopsInv
<1>2. /\ TypeOK /\ RigTypeOK /\ HomingTypeOK /\ axis \in Axes /\ leg \in Legs
      /\ stopCount \in [Legs -> Int16 \cup {Unset}]
  BY DEF StopsInv, MotorInv, TypeInv, TypeOK, HomingTypeOK
<1> DEFINE Parts == /\ hpc \in {"drive", "push"} => Advances
                    /\ CountsReal
                    /\ HomeCountRests
                    /\ keepRunning => Measured
<1>3. CASE StartLeg
  <2>1. PICK ok \in BOOLEAN : Exchange(StopCommand, ok)
    BY <1>3 DEF StartLeg
  <2>2. hpc' \in {"drive", "returned"} /\ UNCHANGED <<calibrationVars, axis, leg, stopCount>>
    BY <1>3 DEF StartLeg, Return
  <2>3. CASE Exchange(StopCommand, TRUE) /\ hpc' = "drive"
    <3>1. /\ sampleIndex' = 0 /\ stagnant' = 0
          /\ lastMoving' = EncoderCount(axis)
      BY <1>3, <2>3 DEF StartLeg, Return
    <3>2. held' = StopCommand
      BY <2>3, StopType DEF Exchange
    <3>3. ~Driving(held'[axis])
      BY <1>2, <3>2, StopType DEF Driving, MotorsOff
    <3>4. position'[axis] = position[axis]
      BY <1>2, <2>3, <3>3 DEF Exchange, Reach
    <3>5. EncoderCount(axis) = Count(axis) /\ Count(axis) \in Int
      BY <1>2, CountIs
    <3>6. Count(axis)' = Count(axis)
      BY <2>2, <3>4 DEF Count
    <3>7. Moved' = 0
      BY <2>2, <3>1, <3>5, <3>6 DEF Moved
    <3>8. sampleIndex' * MinStep = 0
      BY <3>1, StepAssumption
    <3>9. Advances'
      BY <3>7, <3>8 DEF Advances
    <3>10. CountsReal' /\ HomeCountRests' /\ (keepRunning' => Measured')
      <4>1. keepRunning' = keepRunning
        BY <2>1, ExchangeHeld
      <4>2. AxisDone("yaw") => AxisDone("yaw")'
        BY <1>2, <2>1, <2>2, DoneStays, StopIsQuiet DEF Axes
      <4>3. stopCount["home"] = Unset
        BY <1>3 DEF StartLeg, StopsInv, HomeCountRests, HomeCountLabels
      <4> QED
        BY <2>2, <2>3, <4>1, <4>2, <4>3 DEF StopsInv, CountsReal, HomeCountRests, Measured
    <3> QED
      BY <1>1, <3>9, <3>10 DEF StopsInv
  <2>4. CASE hpc' = "returned" /\ hresult' = "EIO"
    <3>1. hpc \notin HomeCountLabels
      BY <1>3 DEF StartLeg, HomeCountLabels
    <3>2. Parts'
      BY <2>1, <2>2, <2>4, <3>1, QuietExchange, StopIsQuiet
    <3> QED
      BY <1>1, <3>2 DEF StopsInv
  <2> QED
    BY <1>3, <2>3, <2>4 DEF StartLeg, Return
<1>4. CASE DriveTest
  <2>1. /\ hpc = "drive" /\ hpc' \in {"push", "settle"}
        /\ UNCHANGED <<rigVars, calibrationVars, axis, leg, driveVars, stopCount>>
    BY <1>4 DEF DriveTest
  <2>2. Advances' <=> Advances
    BY <2>1 DEF Advances, Moved, AtEnd, Count, DriveDirection, rigVars, driveVars
  <2>3. HomeCountRests'
    BY <2>1 DEF StopsInv, HomeCountRests, HomeCountLabels
  <2>4. keepRunning' => Measured'
    BY <2>1 DEF StopsInv, Measured, AxisDone, Resting, rigVars, calibrationVars
  <2> QED
    BY <1>1, <2>1, <2>2, <2>3, <2>4 DEF StopsInv, CountsReal
<1>5. CASE PushOk
  <2>1. /\ hpc = "push" /\ Exchange(HomeCommand, TRUE) /\ Advances
        /\ UNCHANGED <<calibrationVars, axis, leg>>
        /\ stopCount["home"] = Unset /\ keepRunning' = keepRunning
    BY <1>5, ExchangeHeld
       DEF PushOk, StopsInv, HomeCountRests, HomeCountLabels
  <2>2. axis = "pitch" /\ AxisDone("yaw") => AxisDone("yaw")'
    <3>1. axis = "pitch" => HomeCommand["yaw"].enable = 0
      BY StopType DEF HomeCommand, MotorsOff, Axes
    <3>2. Latched(HomeCommand) = HomeCommand
      BY <1>2, HomeCommandType
    <3> QED
      BY <1>2, <2>1, <3>1, <3>2, DoneStays DEF Axes
  <2>3. CASE hpc' = "drive"
    <3>1. Advances'
      BY <1>2, <1>5, <2>1, <2>3, AdvancesStep
    <3>2. stopCount' = stopCount
      BY <1>5, <2>3 DEF PushOk
    <3> QED
      BY <1>1, <2>1, <2>2, <2>3, <3>1, <3>2
         DEF StopsInv, CountsReal, HomeCountRests, Measured
  <2>4. CASE hpc' = "settle"
    <3>1. /\ Stalled(EncoderCount(axis))
          /\ stopCount' = [stopCount EXCEPT ![leg] = EncoderCount(axis)]
      BY <1>5, <2>4 DEF PushOk
    <3>2. AtEnd
      BY <1>2, <2>1, <3>1, StalledAtEnd
    <3>3. AtEnd'
      BY <1>2, <1>5, <3>2, PushMoves
    <3>4. EncoderCount(axis) = Count(axis) /\ CountAtStop[axis] \in Int
      BY <1>2, CountIs
    <3>5. DriveDirection = IF leg = "away" THEN POSITIVE ELSE NEGATIVE
      BY DEF DriveDirection, Opposite, HomeDirection, POSITIVE, NEGATIVE
    <3>6. Count(axis) = IF leg = "away" THEN CountAtStop[axis] + Travel
                        ELSE CountAtStop[axis]
      BY <3>2, <3>4, <3>5 DEF AtEnd, Count, POSITIVE, NEGATIVE
    <3>7. CountsReal'
      BY <1>2, <2>1, <3>1, <3>4, <3>6 DEF StopsInv, CountsReal, Legs
    <3>8. leg = "home" => Resting(axis)'
      <4>1. held' = HomeCommand
        BY <1>2, <2>1, HomeCommandType DEF Exchange
      <4>2. HomeCommand[axis].direction = DriveDirection
        BY <1>2 DEF HomeCommand, StopCommand
      <4>3. leg = "home" => position'[axis] = 0
        BY <2>1, <3>3 DEF AtEnd, DriveDirection, HomeDirection
      <4> QED
        BY <2>1, <3>5, <4>1, <4>2, <4>3 DEF Resting
    <3>9. HomeCountRests'
      <4>1. leg = "away" => stopCount'["home"] = Unset
        BY <1>2, <2>1, <3>1 DEF Legs
      <4> QED
        BY <1>2, <2>1, <2>4, <3>8, <4>1 DEF HomeCountRests, HomeCountLabels, Legs, Resting
    <3>10. keepRunning' => Measured'
      <4>1. leg = "home" => stopCount'["away"] = stopCount["away"]
        BY <1>2, <3>1 DEF Legs
      <4> QED
        BY <2>1, <2>2, <2>4, <4>1 DEF StopsInv, Measured
    <3> QED
      BY <1>1, <2>4, <3>7, <3>9, <3>10 DEF StopsInv
  <2> QED
    BY <1>5, <2>3, <2>4 DEF PushOk
<1>6. CASE PushFails
  <2>1. /\ hpc = "push" /\ Exchange(HomeCommand, FALSE)
        /\ UNCHANGED <<calibrationVars, axis, leg, stopCount>>
        /\ hpc' = "returned" /\ hresult' = "EIO"
        /\ stopCount["home"] = Unset /\ keepRunning' = keepRunning
    BY <1>6, ExchangeHeld
       DEF PushFails, Return, StopsInv, HomeCountRests, HomeCountLabels
  <2>2. axis = "pitch" /\ AxisDone("yaw") => AxisDone("yaw")'
    <3>1. axis = "pitch" => HomeCommand["yaw"].enable = 0
      BY StopType DEF HomeCommand, MotorsOff, Axes
    <3>2. Latched(HomeCommand) = HomeCommand
      BY <1>2, HomeCommandType
    <3> QED
      BY <1>2, <2>1, <3>1, <3>2, DoneStays DEF Axes
  <2> QED
    BY <1>1, <2>1, <2>2 DEF StopsInv, CountsReal, HomeCountRests, Measured
<1>7. CASE SettleTest
  <2>1. /\ hpc = "settle" /\ hpc' \in {"settleStop", "legDone", "gaveUp"}
        /\ UNCHANGED <<rigVars, calibrationVars, axis, leg, stopCount>>
        /\ hpc' = "legDone" => stopCount[leg] # Unset
    BY <1>7 DEF SettleTest
  <2>2. HomeCountRests'
    BY <2>1 DEF StopsInv, HomeCountRests, HomeCountLabels, Resting, rigVars
  <2>3. keepRunning' => Measured'
    BY <2>1 DEF StopsInv, Measured, AxisDone, Resting, rigVars, calibrationVars
  <2> QED
    BY <1>1, <2>1, <2>2, <2>3 DEF StopsInv, CountsReal
<1>8. CASE SettleStop
  <2>1. PICK ok \in BOOLEAN : Exchange(StopCommand, ok)
    BY <1>8 DEF SettleStop
  <2>2. /\ hpc' = "settle" \/ (hpc' = "returned" /\ hresult' = "EIO")
        /\ UNCHANGED <<calibrationVars, axis, leg, stopCount>>
    BY <1>8 DEF SettleStop, Return
  <2>3. hpc' \in HomeCountLabels
    BY <2>2 DEF HomeCountLabels
  <2>4. Parts'
    BY <2>1, <2>2, <2>3, QuietExchange, StopIsQuiet
  <2> QED
    BY <1>1, <2>4 DEF StopsInv
<1>9. CASE GaveUp
  <2>1. /\ hpc = "gaveUp"
        /\ UNCHANGED <<rigVars, calibrationVars, axis, leg, stopCount>>
        /\ IF keepRunning THEN hpc' = "returned" /\ hresult' = "ETIMEDOUT"
           ELSE hpc' = "legDone"
    BY <1>9 DEF GaveUp, Return
  <2>2. HomeCountRests'
    BY <2>1 DEF StopsInv, HomeCountRests, HomeCountLabels, Resting, rigVars
  <2>3. keepRunning' => Measured'
    BY <2>1 DEF StopsInv, Measured, AxisDone, Resting, rigVars, calibrationVars
  <2> QED
    BY <1>1, <2>1, <2>2, <2>3 DEF StopsInv, CountsReal
<1>10. CASE LegDone
  <2>1. /\ hpc = "legDone"
        /\ UNCHANGED <<rigVars, calibrationVars, axis, stopCount>>
        /\ IF leg = "away" THEN leg' = "home" /\ hpc' = "start"
           ELSE leg' = leg /\ hpc' = "measure"
    BY <1>10 DEF LegDone
  <2>2. leg \in {"away", "home"}
    BY <1>2 DEF Legs
  <2>3. HomeCountRests'
    BY <2>1, <2>2 DEF StopsInv, HomeCountRests, HomeCountLabels, Resting, rigVars
  <2>4. keepRunning' => Measured'
    BY <2>1, <2>2 DEF StopsInv, Measured, AxisDone, Resting, rigVars, calibrationVars
  <2> QED
    BY <1>1, <2>1, <2>3, <2>4 DEF StopsInv, CountsReal
<1>11. CASE Measure
  <2> DEFINE span(c) == Distance(c["away"], c["home"])
  <2>1. hpc = "measure" /\ UNCHANGED rigVars
    BY <1>11 DEF Measure
  <2>2. PICK c \in ReadCounts :
          IF span(c) = 0
          THEN /\ Return("ERANGE")
               /\ UNCHANGED <<calibrationVars, axis, leg, stopCount>>
          ELSE /\ homeCount' = [homeCount EXCEPT ![axis] = c["home"]]
               /\ travel' = [travel EXCEPT ![axis] = span(c)]
               /\ stopCount' = [l \in Legs |-> Unset]
               /\ axis' = "pitch" /\ leg' = "away" /\ hresult' = hresult
               /\ hpc' = IF axis = "yaw" THEN "start" ELSE "finalStop"
    BY <1>11 DEF Measure
  <2>3. CASE span(c) = 0
    <3>1. /\ hpc' = "returned" /\ hresult' = "ERANGE"
          /\ UNCHANGED <<calibrationVars, axis, leg, stopCount>>
      BY <2>2, <2>3 DEF Return
    <3>2. HomeCountRests'
      BY <2>1, <3>1 DEF StopsInv, HomeCountRests, HomeCountLabels, Resting, rigVars
    <3>3. keepRunning' => Measured'
      BY <2>1, <3>1 DEF StopsInv, Measured, AxisDone, Resting, rigVars, calibrationVars
    <3> QED
      BY <1>1, <2>1, <3>1, <3>2, <3>3 DEF StopsInv, CountsReal
  <2>4. CASE span(c) # 0
    <3>1. /\ homeCount' = [homeCount EXCEPT ![axis] = c["home"]]
          /\ travel' = [travel EXCEPT ![axis] = span(c)]
          /\ axis' = "pitch" /\ leg' = "away"
          /\ hpc' = IF axis = "yaw" THEN "start" ELSE "finalStop"
      BY <2>2, <2>4
    <3>2. stopCount'["away"] = Unset /\ stopCount'["home"] = Unset
      BY <2>2, <2>4 DEF Legs
    <3>3. ASSUME keepRunning PROVE Measured'
      <4>1. /\ Measured /\ leg = "home"
            /\ stopCount["away"] # Unset /\ stopCount["home"] # Unset
        BY <2>1, <3>3 DEF StopsInv, Measured
      <4>2. c["away"] = CountAtStop[axis] + Travel /\ c["home"] = CountAtStop[axis]
        BY <4>1 DEF StopsInv, CountsReal, ReadCounts, Legs
      <4>3. CountAtStop[axis] \in Int /\ Travel \in Nat
        BY <1>2, CountIs, TravelAssumption
      <4>4. span(c) = Travel
        BY <4>2, <4>3 DEF Distance
      <4>5. homeCount \in [Axes -> Int] /\ travel \in [Axes -> Nat]
        BY <1>2 DEF TypeOK, CalibrationTypeOK
      <4>6. homeCount'[axis] = CountAtStop[axis] /\ travel'[axis] = Travel
        BY <1>2, <3>1, <4>2, <4>4, <4>5
      <4>7. Resting(axis) /\ UNCHANGED <<held, position>>
        BY <2>1, <4>1 DEF StopsInv, HomeCountRests, rigVars
      <4>8. axis = "yaw" => AxisDone("yaw")'
        BY <4>6, <4>7 DEF AxisDone, Resting
      <4>9. axis = "pitch" => AxisDone("yaw")' /\ AxisDone("pitch")'
        BY <3>1, <4>1, <4>5, <4>6, <4>7 DEF Measured, AxisDone, Resting, Axes
      <4> QED
        BY <1>2, <3>1, <4>8, <4>9 DEF Measured, Axes
    <3> QED
      BY <1>1, <2>1, <3>1, <3>2, <3>3
         DEF StopsInv, CountsReal, HomeCountRests, rigVars
  <2> QED
    BY <2>3, <2>4
<1>12. CASE FinalStop
  <2>1. PICK ok \in BOOLEAN : Exchange(StopCommand, ok)
    BY <1>12 DEF FinalStop
  <2>2. /\ hpc = "finalStop" /\ hpc' = "returned"
        /\ UNCHANGED <<calibrationVars, axis, leg, stopCount>>
    BY <1>12 DEF FinalStop, Return
  <2>3. \A a \in Axes : AxisDone(a) => AxisDone(a)'
    BY <1>2, <2>1, <2>2, DoneStays, StopIsQuiet
  <2>4. keepRunning' = keepRunning
    BY <2>1, ExchangeHeld
  <2>5. stopCount["home"] = Unset
    BY <2>2 DEF StopsInv, HomeCountRests, HomeCountLabels
  <2> QED
    BY <1>1, <2>2, <2>3, <2>4, <2>5
       DEF StopsInv, CountsReal, HomeCountRests, Measured, Axes
<1>13. CASE SignalHoming
  <2>1. UNCHANGED <<held, position, calibrationVars, homingVars>> /\ ~keepRunning'
    BY <1>13 DEF SignalHoming, Signal
  <2>2. Advances' <=> Advances
    BY <2>1 DEF Advances, Moved, AtEnd, Count, DriveDirection, homingVars, driveVars
  <2> QED
    BY <1>1, <2>1, <2>2 DEF StopsInv, CountsReal, HomeCountRests, Resting, homingVars
<1>14. CASE UNCHANGED HomingOnlyVars
  <2>1. UNCHANGED <<rigVars, calibrationVars, homingVars>>
    BY <1>14 DEF HomingOnlyVars
  <2>2. Advances' <=> Advances
    BY <2>1 DEF Advances, Moved, AtEnd, Count, DriveDirection, homingVars, driveVars, rigVars
  <2>3. keepRunning' => Measured'
    BY <2>1 DEF StopsInv, Measured, AxisDone, Resting, rigVars, calibrationVars, homingVars
  <2> QED
    BY <1>1, <2>1, <2>2, <2>3
       DEF StopsInv, CountsReal, HomeCountRests, Resting, homingVars, rigVars
<1> QED
  BY <1>3, <1>4, <1>5, <1>6, <1>7, <1>8, <1>9, <1>10, <1>11, <1>12, <1>13, <1>14
     DEF HomingOnlyNext, HomingStep, HomingReturned

LEMMA StopsInvReal == StopsInv => StopsAreReal
<1>1. StopsInv /\ hpc = "returned" /\ hresult = "0" /\ keepRunning
        => AxisDone("yaw") /\ AxisDone("pitch")
  BY DEF StopsInv, Measured
<1> QED
  BY <1>1 DEF StopsInv, CountsReal, StopsAreReal, AxisDone, Resting, Calibrated, Axes

\* Every stop count homing reports was read at the mechanical stop, and a
\* homing that completes has calibrated both axes and left them at home, if an
\* axis that is not blocked moves by the threshold within a window.
THEOREM HomingStopsAreReal ==
  ASSUME Threshold <= Window * MinStep
  PROVE  HomingSpec => []StopsAreReal
<1>1. HomingSpec => []StopsInv
  BY StopsInvInit, StopsInvStep, PTL DEF HomingSpec
<1> QED
  BY <1>1, StopsInvReal, PTL

(***************************************************************************)
(* The signal.  A late push needs a loop test that was passed before the   *)
(* signal, and after that push the next test ends the drive.               *)
(***************************************************************************)
LateInv ==
  /\ TypeInv
  /\ keepRunning \/ hpc = "push" => lateDrives = 0
  /\ AtMostOneLateDrive

LEMMA LateInvInit == HomingOnlyInit => LateInv
  BY TypeInvInit DEF LateInv, AtMostOneLateDrive, HomingOnlyInit, RigInit

LEMMA LateInvStep == LateInv /\ [HomingOnlyNext]_HomingOnlyVars => LateInv'
<1> SUFFICES ASSUME LateInv, [HomingOnlyNext]_HomingOnlyVars PROVE LateInv'
  OBVIOUS
<1>1. TypeInv'
  BY TypeInvStep DEF LateInv
<1>2. lateDrives \in Nat
  BY DEF LateInv, TypeInv, TypeOK, RigTypeOK
<1>3. /\ keepRunning' \/ hpc' = "push" => lateDrives' = 0
      /\ AtMostOneLateDrive'
  <2>1. CASE StartLeg \/ SettleStop \/ FinalStop
    <3>1. PICK ok \in BOOLEAN : Exchange(StopCommand, ok)
      BY <2>1 DEF StartLeg, SettleStop, FinalStop
    <3>2. lateDrives' = lateDrives /\ keepRunning' = keepRunning
      BY <1>2, <3>1, ExchangeLate, ExchangeHeld, StopType
    <3>3. hpc' # "push"
      BY <2>1 DEF StartLeg, SettleStop, FinalStop, Return
    <3> QED
      BY <3>2, <3>3 DEF LateInv, AtMostOneLateDrive
  <2>2. CASE PushOk \/ PushFails
    <3>1. PICK ok \in BOOLEAN : Exchange(HomeCommand, ok)
      BY <2>2 DEF PushOk, PushFails
    <3>2. /\ keepRunning => lateDrives' = lateDrives
          /\ lateDrives' \in {lateDrives, lateDrives + 1}
          /\ keepRunning' = keepRunning
      BY <1>2, <3>1, ExchangeLate, ExchangeHeld
    <3>3. lateDrives = 0 /\ hpc' # "push"
      BY <2>2 DEF PushOk, PushFails, Return, LateInv
    <3> QED
      BY <3>2, <3>3 DEF AtMostOneLateDrive
  <2>3. CASE DriveTest
    BY <2>3 DEF DriveTest, rigVars, LateInv, AtMostOneLateDrive
  <2>4. CASE SettleTest \/ GaveUp \/ LegDone \/ Measure
    <3>1. UNCHANGED rigVars /\ hpc' # "push"
      BY <2>4 DEF SettleTest, GaveUp, LegDone, Measure, Return
    <3> QED
      BY <3>1 DEF rigVars, LateInv, AtMostOneLateDrive
  <2>5. CASE SignalHoming
    BY <2>5 DEF SignalHoming, Signal, homingVars, LateInv, AtMostOneLateDrive
  <2>6. CASE UNCHANGED HomingOnlyVars
    BY <2>6 DEF HomingOnlyVars, rigVars, homingVars, LateInv, AtMostOneLateDrive
  <2> QED
    BY <2>1, <2>2, <2>3, <2>4, <2>5, <2>6
       DEF HomingOnlyNext, HomingStep, HomingReturned
<1> QED
  BY <1>1, <1>3 DEF LateInv

\* After the signal homing sends at most one more command that enables a motor.
THEOREM HomingOneLateDrive == HomingSpec => []AtMostOneLateDrive
<1>1. HomingSpec => []LateInv
  BY LateInvInit, LateInvStep, PTL DEF HomingSpec
<1>2. LateInv => AtMostOneLateDrive
  BY DEF LateInv
<1> QED
  BY <1>1, <1>2, PTL

(***************************************************************************)
(* The return.  With at least one settling sample, a drive that timed out  *)
(* has settled (or was interrupted, and then does not report a timeout).   *)
(***************************************************************************)
QuietInv ==
  /\ TypeInv
  /\ QuietReturn
  /\ hpc \in {"settle", "settleStop"} /\ settled > 0 => MotorsOff(held)
  /\ hpc = "gaveUp" /\ keepRunning => MotorsOff(held)

LEMMA QuietInvInit == HomingOnlyInit => QuietInv
  BY TypeInvInit DEF QuietInv, QuietReturn, HomingOnlyInit, HomingInit

LEMMA QuietInvStep ==
  ASSUME Settle > 0
  PROVE  QuietInv /\ [HomingOnlyNext]_HomingOnlyVars => QuietInv'
<1> SUFFICES ASSUME QuietInv, [HomingOnlyNext]_HomingOnlyVars PROVE QuietInv'
  OBVIOUS
<1>1. TypeInv'
  BY TypeInvStep DEF QuietInv
<1>2. settled \in Int
  BY HomingAssumption DEF QuietInv, TypeInv, TypeOK, HomingTypeOK
<1> DEFINE Parts ==
      /\ QuietReturn
      /\ hpc \in {"settle", "settleStop"} /\ settled > 0 => MotorsOff(held)
      /\ hpc = "gaveUp" /\ keepRunning => MotorsOff(held)
<1>3. Parts'
  <2>1. CASE StartLeg
    BY <2>1 DEF StartLeg, Return, QuietReturn
  <2>2. CASE DriveTest
    BY <2>2 DEF DriveTest, QuietReturn
  <2>3. CASE PushOk
    BY <2>3 DEF PushOk, QuietReturn
  <2>4. CASE PushFails
    BY <2>4 DEF PushFails, Return, QuietReturn
  <2>5. CASE SettleTest
    <3>1. UNCHANGED <<held, keepRunning, settled>>
      BY <2>5 DEF SettleTest, rigVars
    <3>2. hpc' = "gaveUp" /\ keepRunning => settled > 0
      BY <1>2, <2>5, HomingAssumption DEF SettleTest
    <3>3. hpc' \in {"settleStop", "legDone", "gaveUp"}
      BY <2>5 DEF SettleTest
    <3>4. settled > 0 => MotorsOff(held)
      BY <2>5 DEF SettleTest, QuietInv
    <3> QED
      BY <3>1, <3>2, <3>3, <3>4 DEF QuietReturn, MotorsOff
  <2>6. CASE SettleStop
    <3>1. CASE Exchange(StopCommand, TRUE) /\ hpc' = "settle"
      <4>1. MotorsOff(held')
        BY <3>1, StopExchange
      <4> QED
        BY <3>1, <4>1 DEF QuietReturn, MotorsOff
    <3>2. CASE Return("EIO")
      BY <3>2 DEF Return, QuietReturn
    <3> QED
      BY <2>6, <3>1, <3>2 DEF SettleStop
  <2>7. CASE GaveUp
    <3>1. held' = held
      BY <2>7 DEF GaveUp, rigVars
    <3>2. CASE keepRunning
      <4>1. MotorsOff(held) /\ hpc' = "returned"
        BY <2>7, <3>2 DEF GaveUp, Return, QuietInv
      <4> QED
        BY <3>1, <4>1 DEF QuietReturn, MotorsOff
    <3>3. CASE ~keepRunning
      BY <2>7, <3>3 DEF GaveUp, QuietReturn
    <3> QED
      BY <3>2, <3>3
  <2>8. CASE LegDone
    BY <2>8 DEF LegDone, QuietReturn
  <2>9. CASE Measure
    <3>1. \/ hpc' \in {"start", "finalStop"}
          \/ hpc' = "returned" /\ hresult' = "ERANGE"
      BY <2>9 DEF Measure, Return
    <3> QED
      BY <3>1 DEF QuietReturn
  <2>10. CASE FinalStop
    <3>1. CASE Exchange(StopCommand, TRUE) /\ Return("0")
      <4>1. MotorsOff(held') /\ hpc' = "returned"
        BY <3>1, StopExchange DEF Return
      <4> QED
        BY <4>1 DEF QuietReturn, MotorsOff
    <3>2. CASE Return("EIO")
      BY <3>2 DEF Return, QuietReturn
    <3> QED
      BY <2>10, <3>1, <3>2 DEF FinalStop
  <2>11. CASE SignalHoming
    BY <2>11 DEF SignalHoming, Signal, homingVars, QuietInv, QuietReturn, MotorsOff
  <2>12. CASE UNCHANGED HomingOnlyVars
    BY <2>12 DEF HomingOnlyVars, rigVars, homingVars, QuietInv, QuietReturn, MotorsOff
  <2> QED
    BY <2>1, <2>2, <2>3, <2>4, <2>5, <2>6, <2>7, <2>8, <2>9, <2>10, <2>11, <2>12
       DEF HomingOnlyNext, HomingStep, HomingReturned
<1> QED
  BY <1>1, <1>3 DEF QuietInv

\* homing_run returns success or a timeout only with both motors disabled in
\* the FPGA, given that it settles for at least one sample.
THEOREM HomingQuietReturn ==
  ASSUME Settle > 0
  PROVE  HomingSpec => []QuietReturn
<1>1. HomingSpec => []QuietInv
  BY QuietInvInit, QuietInvStep, PTL DEF HomingSpec
<1>2. QuietInv => QuietReturn
  BY DEF QuietInv
<1> QED
  BY <1>1, <1>2, PTL

(***************************************************************************)
(* The whole program.  Homing within main: until main has taken its        *)
(* result, every step is one of homing_run, a signal, or leaves all that   *)
(* homing knows alone.                                                     *)
(***************************************************************************)
Phases ==
  /\ hpc # "idle" => mpc \in {"open", "homing", "exited"}
  /\ mpc \in {"open", "homing"} => cpc = "entry" /\ hpc # "idle"

LEMMA HomeIsNotIdle == Phases /\ Home => hpc' # "idle"
  BY DEF Home, HomingStep, StartLeg, DriveTest, PushOk, PushFails, SettleTest,
     SettleStop, GaveUp, LegDone, Measure, FinalStop, Return, Phases

LEMMA HomingWithin ==
  ASSUME Phases, [Next]_vars, hpc' # "idle"
  PROVE  hpc # "idle" /\ [HomingOnlyNext]_HomingOnlyVars
<1>1. CASE Home
  BY <1>1 DEF Home, HomingOnlyNext, Phases
<1>2. CASE HandleSignal
  BY <1>2 DEF HandleSignal, HomingOnlyNext, SignalHoming, homingVars
<1>3. CASE OpenSpi \/ Camera \/ Exited \/ UNCHANGED vars
  BY <1>3 DEF OpenSpi, Camera, PublishSnapshot, Exited, vars, HomingOnlyVars, homingVars
<1>4. CASE HomingReturns
  BY <1>4 DEF HomingReturns
<1>5. CASE \/ HomingStop \/ CheckHoming \/ ReadInitial \/ StartVision \/ Control
           \/ ControlReturns \/ StopAfterControl \/ StopVision
  <2>1. mpc \notin {"open", "homing", "exited"} /\ hpc' = hpc
    BY <1>5 DEF HomingStop, CheckHoming, ReadInitial, StartVision, Control,
       ControlReturns, StopAfterControl, StopVision, homingVars
  <2> QED
    BY <2>1 DEF Phases
<1> QED
  BY <1>1, <1>2, <1>3, <1>4, <1>5 DEF Next, MainStep

\* What a step after homing does to the rig: nothing, an exchange of a stop or
\* of the control loop's command, or the signal.
LEMMA AfterHoming ==
  ASSUME Phases, [Next]_vars, hpc' = "idle"
  PROVE  /\ UNCHANGED <<calibrationVars, axis, leg, driveVars, settled,
                        stopCount, hresult>>
         /\ \/ UNCHANGED rigVars
            \/ \E ok \in BOOLEAN : Exchange(StopCommand, ok) /\ UNCHANGED command
            \/ mpc = "control" /\ LoopExchange
            \/ HandleSignal
<1>1. CASE Home
  BY <1>1, HomeIsNotIdle
<1>2. CASE HandleSignal
  BY <1>2 DEF HandleSignal, homingVars
<1>3. CASE OpenSpi \/ CheckHoming \/ StartVision \/ ControlReturns \/ StopVision
           \/ Exited \/ UNCHANGED vars
  BY <1>3 DEF OpenSpi, CheckHoming, StartVision, ControlReturns, StopVision, Exited,
     vars, homingVars
<1>4. CASE HomingReturns
  BY <1>4 DEF HomingReturns
<1>5. CASE HomingStop \/ StopAfterControl
  BY <1>5 DEF HomingStop, StopAfterControl, homingVars, controlVars
<1>6. CASE ReadInitial
  BY <1>6 DEF ReadInitial, homingVars
<1>7. CASE Control
  <2>1. CASE LoopExchange
    BY <1>7, <2>1 DEF Control, LoopExchange, homingVars
  <2>2. CASE EnterLoop \/ LoopTest \/ Compute \/ Pace \/ ClockFails
    BY <1>7, <2>2 DEF Control, EnterLoop, LoopTest, Compute, Pace, ClockFails, homingVars
  <2>3. CASE ControlStop
    BY <1>7, <2>3 DEF Control, ControlStop, homingVars
  <2> QED
    BY <1>7, <2>1, <2>2, <2>3 DEF Control, ControlStep
<1>8. CASE Camera
  BY <1>8 DEF Camera, PublishSnapshot, homingVars
<1> QED
  BY <1>1, <1>2, <1>3, <1>4, <1>5, <1>6, <1>7, <1>8 DEF Next, MainStep

LEMMA PhasesInit == Init => Phases
  BY DEF Init, HomingInit, ControlInit, Phases

LEMMA PhasesStep == Phases /\ [Next]_vars => Phases'
<1> SUFFICES ASSUME Phases, [Next]_vars PROVE Phases'
  OBVIOUS
<1>1. CASE Home
  <2>1. hpc' # "idle"
    BY <1>1, HomeIsNotIdle
  <2> QED
    BY <1>1, <2>1 DEF Home, mainVars, controlVars, Phases
<1>2. CASE HandleSignal \/ Exited \/ UNCHANGED vars
  BY <1>2 DEF HandleSignal, Exited, vars, homingVars, mainVars, controlVars, Phases
<1>3. CASE Camera
  BY <1>3 DEF Camera, PublishSnapshot, homingVars, mainVars, Phases
<1>4. CASE OpenSpi
  BY <1>4 DEF OpenSpi, Goto, Exit, homingVars, controlVars, Phases
<1>5. CASE HomingReturns
  BY <1>5 DEF HomingReturns, Goto, controlVars, Phases
<1>6. CASE \/ HomingStop \/ CheckHoming \/ ReadInitial \/ StartVision \/ Control
           \/ ControlReturns \/ StopAfterControl \/ StopVision
  <2>1. /\ mpc \notin {"open", "homing", "exited"} /\ hpc' = hpc
        /\ mpc' \notin {"open", "homing"}
    BY <1>6 DEF HomingStop, CheckHoming, ReadInitial, StartVision, Control,
       ControlReturns, StopAfterControl, StopVision, Goto, Exit, homingVars, mainVars
  <2> QED
    BY <2>1 DEF Phases
<1> QED
  BY <1>1, <1>2, <1>3, <1>4, <1>5, <1>6 DEF Next, MainStep

(***************************************************************************)
(* Type correctness.                                                       *)
(***************************************************************************)
MainTypeInv ==
  /\ Phases
  /\ TypeInv
  /\ ControlTypeOK
  /\ mpc \in MainLabels /\ exitCode \in {NoCode, 0, 1, 130}

\* A controller's output becomes a command the C struct can hold, with a duty
\* within the limit.
LEMMA OutputType ==
  ASSUME NEW output \in Int
  PROVE  /\ OutputToAxisCommand(output) \in AxisCommand
         /\ OutputToAxisCommand(output).pwm <= PwmMax
<1> DEFINE rounded == (Magnitude(output) + 2) \div 4
<1>1. rounded \in Nat
  <2>1. Magnitude(output) \in Nat
    BY DEF Magnitude
  <2>2. \A n \in Nat : (n + 2) \div 4 \in Nat
    BY SMTT(30)
  <2> QED
    BY <2>1, <2>2
<1> HIDE DEF rounded
<1>2. /\ (IF rounded > PwmMax THEN PwmMax ELSE rounded) \in UInt16
      /\ (IF rounded > PwmMax THEN PwmMax ELSE rounded) <= PwmMax
  BY <1>1, PwmMaxAssumption DEF UInt16
<1>3. OutputToAxisCommand(output) =
        [direction |-> IF output >= 0 THEN POSITIVE ELSE NEGATIVE,
         enable    |-> IF output = 0 THEN 0 ELSE 1,
         pwm       |-> IF rounded > PwmMax THEN PwmMax ELSE rounded]
  BY DEF OutputToAxisCommand, rounded
<1> QED
  BY <1>2, <1>3 DEF AxisCommand, Directions, POSITIVE, NEGATIVE

LEMMA SampleType ==
  ASSUME RigTypeOK
  PROVE  EncoderSample \in [Axes -> Int16]
  BY EncoderCountType DEF EncoderSample

LEMMA ClampType ==
  ASSUME CalibrationTypeOK, NEW a \in Axes, NEW angle \in Int
  PROVE  ClampTarget(a, angle) \in Int
  BY DEF ClampTarget, CalibrationTypeOK

LEMMA MainTypeInit == Init => MainTypeInv
<1> SUFFICES ASSUME Init PROVE MainTypeInv
  OBVIOUS
<1>1. TypeInv
  BY TypeInvInit DEF Init, HomingOnlyInit
<1>2. ControlTypeOK
  <2>1. encoders \in [Axes -> Int16]
    BY DEF Init, ControlInit, Int16
  <2>2. NoTarget \in Targets
    BY DEF NoTarget, Targets
  <2>3. 0 \in 0 .. MaxFrames
    BY LoopAssumption
  <2>4. \A a \in Axes : command[a].pwm <= PwmMax
    <3>1. command = StopCommand
      BY DEF Init, ControlInit
    <3>2. 0 <= PwmMax
      BY PwmMaxAssumption
    <3> QED
      BY <3>1, <3>2 DEF StopCommand, AxisOff
  <2> QED
    BY <2>1, <2>2, <2>3, <2>4, StopType DEF Init, ControlInit, ControlTypeOK
<1> QED
  BY <1>1, <1>2, PhasesInit DEF Init, MainTypeInv, MainLabels

\* The control loop's part of the state.
LEMMA ControlTypeStep ==
  ASSUME MainTypeInv, [Next]_vars
  PROVE  ControlTypeOK'
<1>1. RigTypeOK /\ CalibrationTypeOK /\ ControlTypeOK
  BY DEF MainTypeInv, TypeInv, TypeOK
<1> USE DEF ControlTypeOK
<1>2. CASE \/ OpenSpi \/ Home \/ HomingReturns \/ HomingStop \/ CheckHoming
           \/ ControlReturns \/ StopAfterControl \/ StopVision \/ HandleSignal
           \/ Exited \/ UNCHANGED vars
  <2>1. UNCHANGED controlVars
    BY <1>2 DEF OpenSpi, Home, HomingReturns, HomingStop, CheckHoming,
       ControlReturns, StopAfterControl, StopVision, HandleSignal, Exited, vars
  <2> QED
    BY <1>1, <2>1 DEF controlVars, modeVars, targetVars, cameraVars
<1>3. CASE ReadInitial
  <2>1. encoders' \in [Axes -> Int16]
    BY <1>1, <1>3, SampleType DEF ReadInitial
  <2> QED
    BY <1>1, <1>3, <2>1 DEF ReadInitial, modeVars, targetVars, cameraVars
<1>4. CASE StartVision
  <2>1. activeTarget' \in Targets
    <3>1. \A a \in Axes : travel[a] \div 2 \in Int
      BY <1>1 DEF CalibrationTypeOK
    <3> QED
      BY <1>1, <1>4, <3>1 DEF StartVision, Targets
  <2> QED
    BY <1>1, <1>4, <2>1 DEF StartVision, modeVars, cameraVars
<1>5. CASE Camera
  <2>1. PICK valid \in BOOLEAN, error \in Errors :
          /\ snapshot' = [valid |-> valid,
                          error |-> IF valid THEN error ELSE NoTarget,
                          frame |-> snapshot.frame + 1]
          /\ validFrames' = IF valid THEN validFrames + 1 ELSE validFrames
    BY <1>5 DEF Camera, PublishSnapshot
  <2>2. error \in Targets /\ NoTarget \in Targets
    BY LoopAssumption DEF Targets, NoTarget
  <2>3. snapshot.frame + 1 \in 0 .. MaxFrames
    BY <1>1, <1>5, LoopAssumption DEF Camera, PublishSnapshot
  <2>4. /\ snapshot' \in [valid : BOOLEAN, error : Targets, frame : 0 .. MaxFrames]
        /\ validFrames' \in Nat
    BY <1>1, <2>1, <2>2, <2>3
  <2> QED
    BY <1>1, <1>5, <2>4 DEF Camera, PublishSnapshot, modeVars, targetVars
<1>6. CASE Control
  <2>1. CASE EnterLoop \/ LoopTest \/ Pace
    BY <1>1, <2>1 DEF EnterLoop, LoopTest, Pace, modeVars, targetVars, cameraVars
  <2>2. CASE LoopExchange
    <3>1. encoders' \in [Axes -> Int16]
      BY <1>1, <2>2, SampleType DEF LoopExchange
    <3> QED
      BY <1>1, <2>2, <3>1 DEF LoopExchange, CReturn, modeVars, targetVars, cameraVars
  <2>3. CASE Compute
    <3>1. /\ homeCount \in [Axes -> Int] /\ travel \in [Axes -> Nat]
          /\ \A a \in Axes : encoders[a] \in Int /\ snapshot.error[a] \in Int
      BY <1>1, Int16Int DEF CalibrationTypeOK, Targets
    <3>2. FrameTarget \in Targets
      <4>1. \A a \in Axes : Angle(a, encoders[a]) + snapshot.error[a] \in Int
        BY <3>1 DEF Angle
      <4> QED
        BY <1>1, <4>1, ClampType DEF FrameTarget, Targets
    <3>3. /\ activeTarget' \in Targets /\ lastFrame' \in 0 .. MaxFrames
          /\ updates' \in Nat
      BY <1>1, <2>3, <3>2 DEF Compute
    <3>4. setpoint' \in Targets
      <4>1. PICK scheduled \in HoldTargets :
              setpoint' = [a \in Axes |->
                ClampTarget(a, IF tracking THEN activeTarget'[a] ELSE scheduled[a])]
        BY <2>3 DEF Compute
      <4>2. \A a \in Axes : (IF tracking THEN activeTarget'[a] ELSE scheduled[a]) \in Int
        BY <3>3, LoopAssumption DEF Targets
      <4> QED
        BY <1>1, <4>1, <4>2, ClampType DEF Targets
    <3>5. /\ command' \in [Axes -> AxisCommand]
          /\ \A a \in Axes : command'[a].pwm <= PwmMax
      <4>1. PICK output \in Outputs :
              command' = [a \in Axes |-> OutputToAxisCommand(output[a])]
        BY <2>3 DEF Compute
      <4>2. \A a \in Axes : output[a] \in Int
        BY LoopAssumption
      <4> QED
        BY <4>1, <4>2, OutputType
    <3> QED
      BY <1>1, <2>3, <3>3, <3>4, <3>5 DEF Compute, modeVars, cameraVars
  <2>4. CASE ClockFails \/ ControlStop
    BY <1>1, <2>4 DEF ClockFails, ControlStop, CReturn, modeVars, targetVars, cameraVars
  <2> QED
    BY <1>6, <2>1, <2>2, <2>3, <2>4 DEF Control, ControlStep
<1> QED
  BY <1>2, <1>3, <1>4, <1>5, <1>6 DEF Next, MainStep

LEMMA MainTypeStep == MainTypeInv /\ [Next]_vars => MainTypeInv'
<1> SUFFICES ASSUME MainTypeInv, [Next]_vars PROVE MainTypeInv'
  OBVIOUS
<1>1. Phases' /\ ControlTypeOK'
  BY PhasesStep, ControlTypeStep DEF MainTypeInv
<1>2. TypeInv'
  <2>1. CASE hpc' # "idle"
    BY <2>1, HomingWithin, TypeInvStep DEF MainTypeInv
  <2>2. CASE hpc' = "idle"
    <3>1. /\ UNCHANGED <<calibrationVars, axis, leg, driveVars, settled,
                         stopCount, hresult>>
          /\ \/ UNCHANGED rigVars
             \/ \E ok \in BOOLEAN : Exchange(StopCommand, ok) /\ UNCHANGED command
             \/ mpc = "control" /\ LoopExchange
             \/ HandleSignal
      BY <2>2, AfterHoming DEF MainTypeInv
    <3>2. RigTypeOK /\ command \in [Axes -> AxisCommand]
      BY DEF MainTypeInv, TypeInv, TypeOK, ControlTypeOK
    <3>3. RigTypeOK'
      <4>1. CASE UNCHANGED rigVars
        BY <3>2, <4>1 DEF rigVars, RigTypeOK
      <4>2. CASE \E ok \in BOOLEAN : Exchange(StopCommand, ok) /\ UNCHANGED command
        BY <3>2, <4>2, ExchangeType, StopType
      <4>3. CASE LoopExchange
        <5>1. PICK ok \in BOOLEAN : Exchange(command, ok)
          BY <4>3 DEF LoopExchange
        <5> QED
          BY <3>2, <5>1, ExchangeType
      <4>4. CASE HandleSignal
        BY <3>2, <4>4 DEF HandleSignal, Signal, RigTypeOK
      <4> QED
        BY <3>1, <4>1, <4>2, <4>3, <4>4
    <3> QED
      BY <2>2, <3>1, <3>3 DEF MainTypeInv, TypeInv, TypeOK, CalibrationTypeOK,
         HomingTypeOK, HomingLabels, calibrationVars, driveVars
  <2> QED
    BY <2>1, <2>2
<1>3. mpc' \in MainLabels /\ exitCode' \in {NoCode, 0, 1, 130}
  BY DEF Next, MainStep, OpenSpi, Home, HomingReturns, HomingStop, CheckHoming,
     ReadInitial, StartVision, Control, ControlReturns, StopAfterControl,
     StopVision, Camera, HandleSignal, Exited, vars, mainVars, Goto, Exit,
     MainTypeInv, MainLabels
<1> QED
  BY <1>1, <1>2, <1>3 DEF MainTypeInv

LEMMA MainTypeHolds == Spec => []MainTypeInv
  BY MainTypeInit, MainTypeStep, PTL DEF Spec

\* The type invariant of the program.
THEOREM MainTypeCorrect == Spec => []MainTypeOK
<1>1. MainTypeInv => MainTypeOK
  BY DEF MainTypeInv, TypeInv, TypeOK, MainTypeOK
<1> QED
  BY <1>1, MainTypeHolds, PTL

(***************************************************************************)
(* What homing_run keeps: its invariants hold until main takes its result. *)
(***************************************************************************)
DuringHoming ==
  /\ MainTypeInv
  /\ hpc # "idle" => MotorInv /\ QuietInv

LEMMA DuringHomingHolds ==
  ASSUME Settle > 0
  PROVE  Spec => []DuringHoming
<1>1. Init => DuringHoming
  BY MainTypeInit, MotorInvInit, QuietInvInit DEF Init, HomingOnlyInit, DuringHoming
<1>2. DuringHoming /\ [Next]_vars => DuringHoming'
  BY MainTypeStep, HomingWithin, MotorInvStep, QuietInvStep DEF DuringHoming, MainTypeInv
<1> QED
  BY <1>1, <1>2, PTL DEF Spec

\* While homing is under way the FPGA never holds a command that enables both
\* motors, once the program has reached it.
THEOREM MainOneMotor == Spec => []OneMotorAtATime
<1> DEFINE Inv == MainTypeInv /\ (hpc # "idle" => MotorInv)
<1>1. Init => Inv
  BY MainTypeInit, MotorInvInit DEF Init, HomingOnlyInit
<1>2. Inv /\ [Next]_vars => Inv'
  BY MainTypeStep, HomingWithin, MotorInvStep DEF MainTypeInv
<1>3. Inv => OneMotorAtATime
  BY DEF MotorInv, OneEnabled, OneMotorAtATime
<1> QED
  BY <1>1, <1>2, <1>3, PTL DEF Spec

\* Between two different pushes of homing the FPGA holds a stop.
THEOREM MainStopBetweenPushes == Spec => StopBetweenPushes
<1> DEFINE Inv == MainTypeInv /\ (hpc # "idle" => MotorInv)
<1>1. Init => Inv
  BY MainTypeInit, MotorInvInit DEF Init, HomingOnlyInit
<1>2. Inv /\ [Next]_vars => Inv'
  BY MainTypeStep, HomingWithin, MotorInvStep DEF MainTypeInv
<1>3. Inv /\ [Next]_vars
        => [contacted /\ Energised /\ hpc # "idle" /\ held' # held
              => MotorsOff(held')]_HomingOnlyVars
  <2> SUFFICES ASSUME Inv, [Next]_vars, Energised, hpc # "idle", held' # held
               PROVE  MotorsOff(held')
    OBVIOUS
  <2>1. CASE hpc' = "idle"
    <3>1. mpc \in {"open", "homing", "exited"}
      BY DEF MainTypeInv, Phases
    <3>2. \/ UNCHANGED rigVars
          \/ \E ok \in BOOLEAN : Exchange(StopCommand, ok)
          \/ HandleSignal
      BY <2>1, <3>1, AfterHoming DEF MainTypeInv
    <3> QED
      BY <3>2, StopExchange DEF HandleSignal, Signal, rigVars
  <2>2. CASE hpc' # "idle"
    <3>1. \/ held' = held
          \/ MotorsOff(held')
          \/ hpc = "push" /\ held' = HomeCommand
      BY <2>2, HomingWithin, HeldStep DEF MainTypeInv
    <3>2. hpc = "push" => held = HomeCommand
      BY DEF MotorInv, DriveLabels, Energised
    <3> QED
      BY <3>1, <3>2
  <2> QED
    BY <2>1, <2>2
<1> QED
  BY <1>1, <1>2, <1>3, PTL DEF Spec, StopBetweenPushes

\* homing_run returns success or a timeout to main only with the motors off.
THEOREM MainQuietReturn ==
  ASSUME Settle > 0
  PROVE  Spec => []QuietReturn
<1>1. DuringHoming => QuietReturn
  BY DEF DuringHoming, QuietInv, QuietReturn
<1> QED
  BY <1>1, DuringHomingHolds, PTL

(***************************************************************************)
(* The exits.  main looks at no result of the stop exchanges before them,  *)
(* so what counts is that each leaves motors off that were off: homing     *)
(* has succeeded, or the control loop has, whose last exchange was a stop. *)
(***************************************************************************)
QuietEnds ==
  /\ mpc \in {"homingStop", "checkHoming"} /\ hresult = "0" => MotorsOff(held)
  /\ cpc = "returned" /\ cresult = "0" => MotorsOff(held)
  /\ mpc \in {"controlStop", "stopVision"} => cpc = "returned"
  /\ mpc \in {"homingStop", "checkHoming", "readInitial", "startVision"} => cpc = "entry"
  /\ exitCode # NoCode => mpc = "exited"
  /\ QuietExit

QuietMain == DuringHoming /\ QuietEnds

LEMMA QuietEndsInit == Init => QuietEnds
  BY DEF Init, ControlInit, QuietEnds, QuietExit, NoCode

LEMMA QuietEndsStep == QuietMain /\ [Next]_vars => QuietEnds'
<1> SUFFICES ASSUME QuietMain, [Next]_vars PROVE QuietEnds'
  OBVIOUS
<1> USE DEF QuietMain, QuietEnds, QuietExit, NoCode
<1>1. CASE OpenSpi
  BY <1>1 DEF OpenSpi, Goto, Exit, rigVars, controlVars, DuringHoming, MainTypeInv,
     Phases
<1>2. CASE Home
  <2>1. /\ mpc = "homing" /\ cpc = "entry"
        /\ mpc' = mpc /\ cpc' = cpc /\ exitCode' = exitCode
    BY <1>2 DEF Home, controlVars, mainVars, DuringHoming, MainTypeInv, Phases
  <2> QED
    BY <2>1
<1>3. CASE HomingReturns
  <2>1. hresult = "0" => MotorsOff(held)
    BY <1>3 DEF HomingReturns, DuringHoming, QuietInv, QuietReturn
  <2>2. /\ mpc = "homing" /\ cpc = "entry" /\ mpc' = "homingStop"
        /\ UNCHANGED <<cpc, exitCode, hresult, held>>
    BY <1>3 DEF HomingReturns, Goto, rigVars, controlVars, DuringHoming,
       MainTypeInv, Phases
  <2> QED
    BY <2>1, <2>2 DEF MotorsOff
<1>4. CASE HomingStop \/ StopAfterControl
  <2>1. MotorsOff(held) => MotorsOff(held')
    BY <1>4, StopExchange DEF HomingStop, StopAfterControl
  <2> QED
    BY <1>4, <2>1 DEF HomingStop, StopAfterControl, Goto, homingVars, controlVars
<1>5. CASE CheckHoming
  BY <1>5 DEF CheckHoming, Goto, Exit, rigVars, homingVars, controlVars, MotorsOff
<1>6. CASE ReadInitial
  <2>1. /\ mpc = "readInitial" /\ exitCode' \in {exitCode, 1} /\ cpc' = cpc
        /\ \/ mpc' \in {"startVision", "control"} /\ exitCode' = exitCode
           \/ mpc' = "exited"
    BY <1>6 DEF ReadInitial, Goto, Exit
  <2> QED
    BY <2>1
<1>7. CASE StartVision
  BY <1>7 DEF StartVision, Goto, Exit
<1>8. CASE Control
  <2>1. CASE EnterLoop \/ LoopTest \/ Compute \/ Pace
    BY <1>8, <2>1 DEF Control, EnterLoop, LoopTest, Compute, Pace, mainVars
  <2>2. CASE LoopExchange \/ ClockFails
    <3>1. /\ mpc = "control" /\ mpc' = mpc /\ exitCode' = exitCode
          /\ cpc' = "compute" \/ (cpc' = "returned" /\ cresult' \in {"EIO", "EINVAL"})
      BY <1>8, <2>2 DEF Control, LoopExchange, ClockFails, CReturn, mainVars
    <3> QED
      BY <3>1
  <2>3. CASE ControlStop
    <3>1. cresult' = "0" => MotorsOff(held')
      BY <2>3, StopExchange DEF ControlStop, CReturn
    <3> QED
      BY <1>8, <2>3, <3>1 DEF Control, mainVars
  <2> QED
    BY <1>8, <2>1, <2>2, <2>3 DEF Control, ControlStep
<1>9. CASE ControlReturns
  BY <1>9 DEF ControlReturns, Goto, rigVars, controlVars, MotorsOff
<1>10. CASE StopVision
  BY <1>10 DEF StopVision, Exit, rigVars, controlVars, MotorsOff
<1>11. CASE Camera
  BY <1>11 DEF Camera, PublishSnapshot, rigVars, homingVars, mainVars, MotorsOff
<1>12. CASE HandleSignal
  BY <1>12 DEF HandleSignal, Signal, homingVars, controlVars, mainVars, MotorsOff
<1>13. CASE Exited \/ UNCHANGED vars
  BY <1>13 DEF Exited, vars, rigVars, homingVars, controlVars, mainVars, MotorsOff
<1> QED
  BY <1>1, <1>2, <1>3, <1>4, <1>5, <1>6, <1>7, <1>8, <1>9, <1>10, <1>11, <1>12,
     <1>13 DEF Next, MainStep

\* The program ends with 0, or with 130 and the words "motors disabled", only
\* when the FPGA holds a command that disables both motors.
THEOREM MainQuietExit ==
  ASSUME Settle > 0
  PROVE  Spec => []QuietExit
<1>1. Init => QuietEnds
  BY QuietEndsInit
<1>2. DuringHoming /\ QuietEnds /\ [Next]_vars => QuietEnds'
  BY QuietEndsStep DEF QuietMain
<1>3. QuietEnds => QuietExit
  BY DEF QuietEnds
<1> QED
  BY <1>1, <1>2, <1>3, DuringHomingHolds, PTL DEF Spec

(***************************************************************************)
(* First contact.  Every part of the program begins with a stop exchange   *)
(* it does not go on without.                                              *)
(***************************************************************************)
Contact ==
  /\ MainTypeInv
  /\ hpc # "idle" => MotorInv
  /\ mpc \in {"startVision", "control", "controlStop", "stopVision"} => contacted

LEMMA ContactInit == Init => Contact
  BY MainTypeInit, MotorInvInit DEF Init, HomingOnlyInit, Contact

LEMMA ContactStep == Contact /\ [Next]_vars => Contact'
<1> SUFFICES ASSUME Contact, [Next]_vars PROVE Contact'
  OBVIOUS
<1>1. MainTypeInv' /\ (hpc' # "idle" => MotorInv')
  BY MainTypeStep, HomingWithin, MotorInvStep DEF Contact, MainTypeInv
<1>2. CASE mpc' \in {"startVision", "control", "controlStop", "stopVision"}
  <2>1. CASE ReadInitial
    BY <1>1, <1>2, <2>1 DEF ReadInitial, Exchange, Exit, Contact
  <2>2. CASE ~ReadInitial
    <3>1. mpc \in {"startVision", "control", "controlStop", "stopVision"}
      BY <1>2, <2>2 DEF Next, MainStep, OpenSpi, Home, HomingReturns, HomingStop,
         CheckHoming, StartVision, Control, ControlReturns, StopAfterControl,
         StopVision, Camera, HandleSignal, Exited, vars, mainVars, Goto, Exit
    <3>2. hpc' = "idle"
      BY <1>1, <1>2 DEF MainTypeInv, Phases
    <3>3. contacted => contacted'
      BY <3>2, AfterHoming DEF Contact, MainTypeInv, rigVars, Exchange,
         LoopExchange, HandleSignal, Signal
    <3> QED
      BY <1>1, <3>1, <3>3 DEF Contact
  <2> QED
    BY <2>1, <2>2
<1> QED
  BY <1>1, <1>2 DEF Contact

\* Whatever an earlier process left in the FPGA, the first exchange of the
\* program that succeeds disables both motors.
THEOREM MainFirstContactStops == Spec => FirstContactStops
<1>1. Contact /\ [Next]_vars
        => [~contacted /\ contacted' => MotorsOff(held')]_vars
  <2> SUFFICES ASSUME Contact, [Next]_vars, ~contacted, contacted'
               PROVE  MotorsOff(held')
    OBVIOUS
  <2>1. CASE hpc' = "idle"
    <3>1. ~(mpc = "control" /\ LoopExchange)
      BY DEF Contact
    <3>2. \E ok \in BOOLEAN : Exchange(StopCommand, ok)
      BY <2>1, <3>1, AfterHoming DEF Contact, MainTypeInv, rigVars, HandleSignal, Signal
    <3>3. PICK ok \in BOOLEAN : Exchange(StopCommand, ok)
      BY <3>2
    <3>4. ok
      BY <3>3 DEF Exchange
    <3> QED
      BY <3>3, <3>4, StopExchange
  <2>2. CASE hpc' # "idle"
    <3>1. [HomingOnlyNext]_HomingOnlyVars /\ MotorInv
      BY <2>2, HomingWithin DEF Contact, MainTypeInv
    <3>2. ~PushOk /\ ~PushFails
      BY <3>1 DEF MotorInv, DriveLabels, PushOk, PushFails
    <3>3. StartLeg \/ SettleStop \/ FinalStop
      BY <3>1, <3>2 DEF HomingOnlyNext, HomingStep, SignalHoming, Signal,
         HomingReturned, HomingOnlyVars, DriveTest, SettleTest, GaveUp, LegDone,
         Measure, rigVars
    <3>4. PICK ok \in BOOLEAN : Exchange(StopCommand, ok)
      BY <3>3 DEF StartLeg, SettleStop, FinalStop
    <3>5. ok
      BY <3>4 DEF Exchange
    <3> QED
      BY <3>4, <3>5, StopExchange
  <2> QED
    BY <2>1, <2>2
<1> QED
  BY <1>1, ContactInit, ContactStep, PTL DEF Spec, FirstContactStops

(***************************************************************************)
(* The signal.                                                             *)
(***************************************************************************)
MainLate ==
  /\ MainTypeInv
  /\ LateInv
  /\ cpc = "exchange" => lateDrives = 0

LEMMA MainLateInit == Init => MainLate
  BY MainTypeInit, LateInvInit DEF Init, HomingOnlyInit, ControlInit, RigInit, MainLate

\* The rig's observer in a step after homing.
LEMMA LateAfterHoming ==
  ASSUME MainLate, [Next]_vars, hpc' = "idle"
  PROVE  /\ keepRunning' => lateDrives' = 0
         /\ lateDrives' <= 1
         /\ ~LoopExchange => lateDrives' = lateDrives
<1>1. /\ lateDrives \in Nat /\ lateDrives <= 1
      /\ keepRunning => lateDrives = 0
      /\ cpc = "exchange" => lateDrives = 0
  BY DEF MainLate, LateInv, AtMostOneLateDrive, MainTypeInv, TypeInv, TypeOK, RigTypeOK
<1>2. CASE UNCHANGED rigVars
  BY <1>1, <1>2 DEF rigVars
<1>3. CASE \E ok \in BOOLEAN : Exchange(StopCommand, ok) /\ UNCHANGED command
  <2>1. lateDrives' = lateDrives /\ keepRunning' = keepRunning
    BY <1>1, <1>3, ExchangeLate, ExchangeHeld, StopType
  <2> QED
    BY <1>1, <2>1
<1>4. CASE LoopExchange
  <2>1. PICK ok \in BOOLEAN : Exchange(command, ok)
    BY <1>4 DEF LoopExchange
  <2>2. /\ keepRunning => lateDrives' = lateDrives
        /\ lateDrives' \in {lateDrives, lateDrives + 1}
        /\ keepRunning' = keepRunning
    BY <1>1, <2>1, ExchangeLate, ExchangeHeld
  <2>3. lateDrives = 0
    BY <1>1, <1>4 DEF LoopExchange
  <2> QED
    BY <1>1, <1>4, <2>2, <2>3
<1>5. CASE HandleSignal
  BY <1>1, <1>5 DEF HandleSignal, Signal
<1> QED
  BY <1>2, <1>3, <1>4, <1>5, AfterHoming DEF MainLate, MainTypeInv

LEMMA MainLateStep == MainLate /\ [Next]_vars => MainLate'
<1> SUFFICES ASSUME MainLate, [Next]_vars PROVE MainLate'
  OBVIOUS
<1>1. MainTypeInv'
  BY MainTypeStep DEF MainLate
<1>2. LateInv'
  <2>1. CASE hpc' # "idle"
    BY <2>1, HomingWithin, LateInvStep DEF MainLate, MainTypeInv
  <2>2. CASE hpc' = "idle"
    BY <1>1, <2>2, LateAfterHoming
       DEF MainTypeInv, LateInv, AtMostOneLateDrive
  <2> QED
    BY <2>1, <2>2
<1>3. cpc' = "exchange" => lateDrives' = 0
  <2>1. CASE LoopTest
    BY <2>1 DEF LoopTest, rigVars, MainLate, LateInv
  <2>2. CASE LoopExchange
    BY <2>2 DEF LoopExchange, CReturn
  <2>3. CASE ~LoopTest /\ ~LoopExchange
    <3>1. cpc' = "exchange" => cpc = "exchange"
      BY <2>3 DEF Next, MainStep, OpenSpi, Home, HomingReturns, HomingStop,
         CheckHoming, ReadInitial, StartVision, Control, ControlStep, EnterLoop,
         Compute, Pace, ClockFails, ControlStop, CReturn, ControlReturns,
         StopAfterControl, StopVision, Camera, PublishSnapshot, HandleSignal,
         Exited, vars, controlVars
    <3>2. CASE hpc' = "idle"
      BY <2>3, <3>1, <3>2, LateAfterHoming DEF MainLate
    <3>3. CASE hpc' # "idle" /\ mpc = "exited"
      BY <3>1, <3>3 DEF Next, MainStep, OpenSpi, Home, HomingReturns, HomingStop,
         CheckHoming, ReadInitial, StartVision, Control, ControlReturns,
         StopAfterControl, StopVision, Camera, HandleSignal, Exited, vars, rigVars,
         MainLate
    <3>4. CASE hpc' # "idle" /\ mpc # "exited"
      BY <3>1, <3>4, HomingWithin DEF MainLate, MainTypeInv, Phases
    <3> QED
      BY <3>2, <3>3, <3>4
  <2> QED
    BY <2>1, <2>2, <2>3
<1> QED
  BY <1>1, <1>2, <1>3 DEF MainLate

\* After the signal the program sends at most one more command that enables a
\* motor, in homing or in the control loop.
THEOREM MainOneLateDrive == Spec => []AtMostOneLateDrive
<1>1. MainLate => AtMostOneLateDrive
  BY DEF MainLate, LateInv
<1> QED
  BY <1>1, MainLateInit, MainLateStep, PTL DEF Spec

(***************************************************************************)
(* Camera frames.  A valid snapshot that was not used yet is one of the    *)
(* valid frames that have not moved the target.                            *)
(***************************************************************************)
Pending == IF snapshot.valid /\ snapshot.frame # lastFrame THEN 1 ELSE 0

FramesInv == MainTypeInv /\ updates + Pending <= validFrames

LEMMA FramesInvInit == Init => FramesInv
  BY MainTypeInit DEF Init, ControlInit, FramesInv, Pending

LEMMA FramesInvStep == FramesInv /\ [Next]_vars => FramesInv'
<1> SUFFICES ASSUME FramesInv, [Next]_vars PROVE FramesInv'
  OBVIOUS
<1>1. MainTypeInv' /\ updates \in Nat /\ validFrames \in Nat /\ Pending \in {0, 1}
  BY MainTypeStep DEF FramesInv, MainTypeInv, ControlTypeOK, Pending
<1>2. CASE Camera
  <2>1. PICK valid \in BOOLEAN, error \in Errors :
          /\ snapshot' = [valid |-> valid,
                          error |-> IF valid THEN error ELSE NoTarget,
                          frame |-> snapshot.frame + 1]
          /\ validFrames' = IF valid THEN validFrames + 1 ELSE validFrames
    BY <1>2 DEF Camera, PublishSnapshot
  <2>2. updates' = updates /\ Pending' \in {0, 1} /\ (~valid => Pending' = 0)
    BY <1>2, <2>1 DEF Camera, PublishSnapshot, targetVars, Pending
  <2>3. updates + Pending <= validFrames
    BY DEF FramesInv
  <2>4. CASE valid
    <3>1. validFrames' = validFrames + 1
      BY <2>1, <2>4
    <3>2. updates' = updates /\ Pending' \in {0, 1}
      BY <2>2
    <3> DEFINE u == updates
               v == validFrames
               p == Pending
               q == Pending'
    <3>3. u \in Nat /\ v \in Nat /\ p \in {0, 1} /\ q \in {0, 1} /\ u + p <= v
      BY <1>1, <2>3, <3>2
    <3> HIDE DEF u, v, p, q
    <3>4. u + q <= v + 1
      BY <3>3
    <3>5. updates' + Pending' <= validFrames'
      BY <3>1, <3>2, <3>4 DEF u, v, q
    <3> QED
      BY <1>1, <3>5 DEF FramesInv
  <2>5. CASE ~valid
    <3>1. validFrames' = validFrames
      BY <2>1, <2>5
    <3>2. updates' + Pending' <= validFrames'
      BY <1>1, <2>2, <2>3, <2>5, <3>1
    <3> QED
      BY <1>1, <3>2 DEF FramesInv
  <2> QED
    BY <2>4, <2>5
<1>3. CASE Control /\ Compute
  <2>1. validFrames' = validFrames /\ snapshot' = snapshot
    BY <1>3 DEF Compute, cameraVars
  <2>2. CASE FreshFrame
    <3>1. updates' = updates + 1 /\ lastFrame' = snapshot.frame /\ Pending = 1
      BY <1>3, <2>2 DEF Compute, FreshFrame, Pending
    <3>2. Pending' = 0
      BY <2>1, <3>1 DEF Pending
    <3> QED
      BY <1>1, <2>1, <3>1, <3>2 DEF FramesInv
  <2>3. CASE ~FreshFrame
    <3>1. updates' = updates /\ Pending' = Pending
      BY <1>3, <2>1, <2>3 DEF Compute, Pending
    <3> QED
      BY <1>1, <2>1, <3>1 DEF FramesInv
  <2> QED
    BY <2>2, <2>3
<1>4. CASE ~Camera /\ ~(Control /\ Compute)
  <2>1. UNCHANGED <<updates, validFrames, snapshot, lastFrame>>
    BY <1>4 DEF Next, MainStep, OpenSpi, Home, HomingReturns, HomingStop,
       CheckHoming, ReadInitial, StartVision, Control, ControlStep, EnterLoop,
       LoopTest, LoopExchange, Pace, ClockFails, ControlStop, ControlReturns,
       StopAfterControl, StopVision, HandleSignal, Exited, vars, controlVars,
       targetVars, cameraVars
  <2> QED
    BY <1>1, <2>1 DEF FramesInv, Pending
<1> QED
  BY <1>2, <1>3, <1>4

\* No camera frame moves the target twice, however many samples see it.
THEOREM MainFrameUsedOnce == Spec => []FrameUsedOnce
<1>1. FramesInv => FrameUsedOnce
  BY DEF FramesInv, FrameUsedOnce, Pending, MainTypeInv, ControlTypeOK
<1> QED
  BY <1>1, FramesInvInit, FramesInvStep, PTL DEF Spec

(***************************************************************************)
(* The calibration.  main goes on only after a homing that returned 0 and  *)
(* with no signal having come, and nothing changes the calibration then.   *)
(***************************************************************************)
AfterHomingLabels ==
  {"readInitial", "startVision", "control", "controlStop", "stopVision"}

CalibrationInv ==
  /\ MainTypeInv
  /\ hpc # "idle" => StopsInv
  /\ CountsReal
  /\ mpc \in {"homingStop", "checkHoming"} /\ hresult = "0" /\ keepRunning => Calibrated
  /\ mpc \in AfterHomingLabels => Calibrated

LEMMA CalibrationInvInit == Init => CalibrationInv
<1> SUFFICES ASSUME Init PROVE CalibrationInv
  OBVIOUS
<1>1. StopsInv
  BY StopsInvInit DEF Init, HomingOnlyInit
<1> QED
  BY <1>1, MainTypeInit DEF Init, StopsInv, CalibrationInv, AfterHomingLabels

LEMMA CalibrationInvStep ==
  ASSUME Threshold <= Window * MinStep
  PROVE  CalibrationInv /\ [Next]_vars => CalibrationInv'
<1> SUFFICES ASSUME CalibrationInv, [Next]_vars PROVE CalibrationInv'
  OBVIOUS
<1>1. MainTypeInv' /\ Phases'
  BY MainTypeStep DEF CalibrationInv, MainTypeInv
<1>2. CASE hpc' # "idle"
  <2>1. StopsInv'
    BY <1>2, HomingWithin, StopsInvStep DEF CalibrationInv, MainTypeInv
  <2>2. mpc' \in {"open", "homing", "exited"}
    BY <1>1, <1>2 DEF Phases
  <2> QED
    BY <1>1, <2>1, <2>2 DEF CalibrationInv, StopsInv, AfterHomingLabels
<1>3. CASE hpc' = "idle"
  <2>1. UNCHANGED <<calibrationVars, axis, stopCount, hresult>>
    BY <1>3, AfterHoming DEF CalibrationInv, MainTypeInv
  <2>2. CountsReal' /\ (Calibrated => Calibrated')
    BY <2>1 DEF CalibrationInv, CountsReal, Calibrated, calibrationVars
  <2>3. CASE HomingReturns
    <3>1. hresult = "0" /\ keepRunning => Calibrated
      BY <2>3, StopsInvReal DEF HomingReturns, CalibrationInv, MainTypeInv, Phases,
         StopsAreReal
    <3>2. mpc' = "homingStop" /\ keepRunning' = keepRunning
      BY <2>3 DEF HomingReturns, Goto, rigVars
    <3>3. hresult' = hresult
      BY <2>1
    <3>4. hresult' = "0" /\ keepRunning' => Calibrated'
      BY <2>2, <3>1, <3>2, <3>3
    <3> QED
      BY <1>1, <1>3, <2>2, <3>2, <3>4 DEF CalibrationInv, AfterHomingLabels
  <2>4. CASE ~HomingReturns
    <3>1. keepRunning' => keepRunning
      BY <1>3, AfterHoming DEF CalibrationInv, MainTypeInv, rigVars, Exchange,
         LoopExchange, HandleSignal, Signal
    <3>2. /\ mpc' \in {"homingStop", "checkHoming"} =>
               mpc \in {"homingStop", "checkHoming"}
          /\ mpc' \in AfterHomingLabels =>
               \/ mpc \in AfterHomingLabels
               \/ mpc = "checkHoming" /\ hresult = "0" /\ keepRunning
      BY <2>4 DEF Next, MainStep, OpenSpi, Home, HomingStop, CheckHoming, ReadInitial,
         StartVision, Control, ControlReturns, StopAfterControl, StopVision, Camera,
         HandleSignal, Exited, vars, mainVars, Goto, Exit, AfterHomingLabels
    <3>3. hresult' = hresult
      BY <2>1
    <3>4. /\ mpc' \in {"homingStop", "checkHoming"} /\ hresult' = "0" /\ keepRunning'
               => Calibrated'
          /\ mpc' \in AfterHomingLabels => Calibrated'
      BY <2>2, <3>1, <3>2, <3>3 DEF CalibrationInv
    <3> QED
      BY <1>1, <1>3, <2>2, <3>4 DEF CalibrationInv
  <2> QED
    BY <2>3, <2>4
<1> QED
  BY <1>2, <1>3

\* The stop counts of the program's homing are real, and a homing that
\* completes leaves both axes calibrated and at home.
THEOREM MainStopsAreReal ==
  ASSUME Threshold <= Window * MinStep
  PROVE  Spec => []StopsAreReal
<1>1. CalibrationInv => StopsAreReal
  <2> SUFFICES ASSUME CalibrationInv PROVE StopsAreReal
    OBVIOUS
  <2>1. CASE hpc # "idle"
    BY <2>1, StopsInvReal DEF CalibrationInv
  <2>2. CASE hpc = "idle"
    BY <2>2 DEF CalibrationInv, CountsReal, StopsAreReal
  <2> QED
    BY <2>1, <2>2
<1> QED
  BY <1>1, CalibrationInvInit, CalibrationInvStep, PTL DEF Spec

\* The control loop runs only on the calibration the stops really give.
THEOREM MainControlNeedsHoming ==
  ASSUME Threshold <= Window * MinStep
  PROVE  Spec => []ControlNeedsHoming
<1>1. CalibrationInv => ControlNeedsHoming
  BY DEF CalibrationInv, AfterHomingLabels, ControlNeedsHoming
<1> QED
  BY <1>1, CalibrationInvInit, CalibrationInvStep, PTL DEF Spec

(***************************************************************************)
(* The program implements MotorSafety.                                     *)
(***************************************************************************)
\* What goes on to the control loop has got through to the FPGA in homing, whose
\* last stop exchange it does not succeed without.
HomedContact ==
  /\ hpc = "returned" /\ hresult = "0" => contacted
  /\ mpc \in {"homingStop", "checkHoming"} /\ hresult = "0" => contacted
  /\ mpc = "readInitial" => contacted

LEMMA ContactKept ==
  ASSUME Phases, [Next]_vars
  PROVE  contacted => contacted'
<1>1. CASE hpc' = "idle"
  BY <1>1, AfterHoming DEF rigVars, Exchange, LoopExchange, HandleSignal, Signal
<1>2. CASE hpc' # "idle"
  <2>1. [HomingOnlyNext]_HomingOnlyVars
    BY <1>2, HomingWithin
  <2> QED
    BY <2>1 DEF HomingOnlyNext, HomingStep, StartLeg, DriveTest, PushOk, PushFails,
       SettleTest, SettleStop, GaveUp, LegDone, Measure, FinalStop, SignalHoming,
       Signal, HomingReturned, HomingOnlyVars, rigVars, Exchange
<1> QED
  BY <1>1, <1>2

LEMMA HomedContactStep ==
  ASSUME Phases, HomedContact, [Next]_vars
  PROVE  HomedContact'
<1>1. contacted => contacted'
  BY ContactKept
<1>2. CASE Home
  <2>1. hpc' = "returned" /\ hresult' = "0" => contacted'
    BY <1>1, <1>2 DEF Home, HomingStep, StartLeg, DriveTest, PushOk, PushFails,
       SettleTest, SettleStop, GaveUp, LegDone, Measure, FinalStop, Return, Exchange
  <2>2. mpc' = "homing"
    BY <1>2 DEF Home, mainVars
  <2> QED
    BY <2>1, <2>2 DEF HomedContact
<1>3. CASE HomingReturns \/ HomingStop \/ CheckHoming
  BY <1>1, <1>3 DEF HomingReturns, HomingStop, CheckHoming, Goto, Exit, homingVars,
     rigVars, HomedContact
<1>4. CASE OpenSpi \/ ReadInitial \/ StartVision \/ Control \/ ControlReturns
           \/ StopAfterControl \/ StopVision \/ Camera \/ HandleSignal \/ Exited
           \/ UNCHANGED vars
  <2>1. /\ hpc' = hpc /\ hresult' = hresult
        /\ mpc' \in {"homingStop", "checkHoming", "readInitial"} => mpc' = mpc
    BY <1>4 DEF OpenSpi, ReadInitial, StartVision, Control, ControlReturns,
       StopAfterControl, StopVision, Camera, HandleSignal, Exited, vars, homingVars,
       mainVars, Goto, Exit
  <2> QED
    BY <1>1, <2>1 DEF HomedContact
<1> QED
  BY <1>2, <1>3, <1>4 DEF Next, MainStep

\* What DrivesOf makes of a command in the registers.
LEMMA DrivesAre ==
  ASSUME NEW c \in [Axes -> HeldAxis]
  PROVE  /\ DrivesOf(c) \in Safety!Drives
         /\ MotorsOff(c) <=> DrivesOf(c) = Safety!Off
         /\ (\E a \in Axes : c[a].enable = 0) => Safety!OneMotor(DrivesOf(c))
<1>1. \A a \in Axes : c[a].enable \in {0, 1}
  BY DEF HeldAxis
<1>2. DrivesOf(c) \in Safety!Drives
  BY DEF DrivesOf, Safety!Drives
<1>3. MotorsOff(c) <=> DrivesOf(c) = Safety!Off
  <2>1. ASSUME MotorsOff(c) PROVE DrivesOf(c) = Safety!Off
    BY <2>1 DEF MotorsOff, DrivesOf, Safety!Off
  <2>2. ASSUME DrivesOf(c) = Safety!Off, NEW a \in Axes PROVE c[a].enable = 0
    <3>1. DrivesOf(c)[a] = 0
      BY <2>2 DEF Safety!Off
    <3> QED
      BY <3>1 DEF DrivesOf
  <2> QED
    BY <2>1, <2>2 DEF MotorsOff
<1>4. ASSUME NEW a \in Axes, c[a].enable = 0 PROVE Safety!OneMotor(DrivesOf(c))
  BY <1>4 DEF DrivesOf, Safety!OneMotor, Axes
<1> QED
  BY <1>2, <1>3, <1>4

SafetyInv == DuringHoming /\ QuietEnds /\ Contact /\ HomedContact /\ MainLate

\* A stop exchange, as MotorSafety sees it.
LEMMA StopMaps ==
  ASSUME SafetyInv, SafetyInv', NEW ok \in BOOLEAN, Exchange(StopCommand, ok)
  PROVE  /\ DrivesOf(held)' = DrivesOf(held) \/ DrivesOf(held)' = Safety!Off
         /\ ~contacted /\ contacted' => DrivesOf(held)' = Safety!Off
         /\ ok => DrivesOf(held)' = Safety!Off /\ contacted'
         /\ contacted => contacted'
         /\ keepRunning' = keepRunning /\ lateDrives' = lateDrives
<1>1. held' \in [Axes -> HeldAxis] /\ lateDrives \in Nat
  BY DEF SafetyInv, DuringHoming, MainTypeInv, TypeInv, TypeOK, RigTypeOK
<1>2. MotorsOff(held') => DrivesOf(held)' = Safety!Off
  BY <1>1, DrivesAre
<1>3. held' = held => DrivesOf(held)' = DrivesOf(held)
  OBVIOUS
<1>4. ~contacted /\ contacted' => ok
  BY DEF Exchange
<1> QED
  BY <1>1, <1>2, <1>3, <1>4, StopExchange, StopType, ExchangeHeld, ExchangeLate

\* homing_run, as MotorSafety sees it.
LEMMA HomeMaps ==
  ASSUME SafetyInv, SafetyInv', Home
  PROVE  [Safety!SafetyNext]_(Safety!safetyVars)
<1>1. /\ mpc = "homing" /\ mpc' = mpc /\ hpc # "idle"
      /\ MotorInv /\ LateInv
  BY DEF Home, mainVars, SafetyInv, DuringHoming, MainTypeInv, Phases, MainLate
<1>2. CASE PushOk \/ PushFails
  <2>1. PICK ok \in BOOLEAN : Exchange(HomeCommand, ok)
    BY <1>2 DEF PushOk, PushFails
  <2>2. /\ contacted /\ contacted' /\ lateDrives = 0
        /\ MotorsOff(held) \/ held = HomeCommand
    BY <1>1, <1>2, <2>1, ExchangeHeld DEF PushOk, PushFails, MotorInv, LateInv,
       DriveLabels
  <2>3. /\ Latched(HomeCommand) = HomeCommand
        /\ \E a \in Axes : HomeCommand[a].enable = 0
        /\ ~MotorsOff(HomeCommand)
    <3>1. axis \in Axes /\ HomeCommand[axis].enable = 1
      BY <1>1 DEF MotorInv, TypeInv, TypeOK, HomingTypeOK, HomeCommand, StopCommand
    <3> QED
      BY <1>1, <3>1, HomeCommandType DEF MotorInv, TypeInv, TypeOK, MotorsOff
  <2>4. held' = held \/ held' = HomeCommand
    BY <2>1, <2>3, ExchangeHeld
  <2>5. held \in [Axes -> HeldAxis] /\ held' \in [Axes -> HeldAxis]
    BY DEF SafetyInv, DuringHoming, MainTypeInv, TypeInv, TypeOK, RigTypeOK
  <2>6. \/ DrivesOf(held)' = DrivesOf(held)
        \/ /\ DrivesOf(held) = Safety!Off
           /\ DrivesOf(held)' \in Safety!Drives
           /\ Safety!OneMotor(DrivesOf(held'))
    BY <2>2, <2>3, <2>4, <2>5, DrivesAre
  <2>7. keepRunning' = keepRunning /\ lateDrives' = IF keepRunning THEN 0 ELSE 1
    BY <2>1, <2>2, <2>3 DEF Exchange, LateLimit
  <2>8. Stage = "homing" /\ Stage' = Stage
    BY <1>1, <2>2 DEF Stage
  <2>9. ~(lateDrives > 0) /\ (lateDrives' > 0) = ~keepRunning
    BY <2>2, <2>7
  <2> QED
    BY <2>6, <2>7, <2>8, <2>9
       DEF Safety!SafetyNext, Safety!Push, Safety!Enable, Safety!OneMotor
<1>3. CASE StartLeg \/ SettleStop \/ FinalStop
  <2>1. PICK ok \in BOOLEAN : Exchange(StopCommand, ok)
    BY <1>3 DEF StartLeg, SettleStop, FinalStop
  <2>2. /\ Stage \in {"first", "homing"}
        /\ \/ Stage' = Stage
           \/ Stage = "first" /\ ~contacted /\ contacted' /\ Stage' = "homing"
    BY <1>1, <2>1, StopMaps DEF Stage
  <2> QED
    BY <2>1, <2>2, StopMaps DEF Safety!SafetyNext, Safety!Stop, Safety!Running
<1>4. CASE DriveTest \/ SettleTest \/ GaveUp \/ LegDone \/ Measure
  <2>1. UNCHANGED rigVars
    BY <1>4 DEF DriveTest, SettleTest, GaveUp, LegDone, Measure
  <2> QED
    BY <1>1, <2>1 DEF rigVars, Stage, Safety!safetyVars
<1> QED
  BY <1>2, <1>3, <1>4 DEF Home, HomingStep

\* The exchanges of main and of the control loop.
LEMMA ExchangesMap ==
  ASSUME SafetyInv, SafetyInv',
         \/ HomingStop \/ StopAfterControl \/ ReadInitial
         \/ (Control /\ (ControlStop \/ LoopExchange))
  PROVE  [Safety!SafetyNext]_(Safety!safetyVars)
<1>1. CASE HomingStop \/ StopAfterControl \/ (Control /\ ControlStop)
  <2>1. PICK ok \in BOOLEAN : Exchange(StopCommand, ok)
    BY <1>1 DEF HomingStop, StopAfterControl, ControlStop
  <2>2. /\ Stage \in {"first", "homing", "control"}
        /\ \/ Stage' = Stage
           \/ Stage = "first" /\ ~contacted /\ contacted' /\ Stage' = "homing"
    BY <1>1, <2>1, StopMaps
       DEF HomingStop, StopAfterControl, Control, mainVars, Goto, Stage, SafetyInv,
           Contact
  <2> QED
    BY <2>1, <2>2, StopMaps DEF Safety!SafetyNext, Safety!Stop, Safety!Running
<1>2. CASE ReadInitial
  <2>1. Stage = "homing"
    BY <1>2 DEF ReadInitial, SafetyInv, HomedContact, Stage
  <2>2. CASE /\ Exchange(StopCommand, TRUE)
             /\ Goto(IF tracking THEN "startVision" ELSE "control")
    <3>1. /\ DrivesOf(held)' = Safety!Off /\ contacted'
          /\ keepRunning' = keepRunning /\ lateDrives' = lateDrives
      BY <2>2, StopMaps
    <3>2. Stage' = "control"
      BY <2>2, <3>1 DEF Goto, Stage
    <3> QED
      BY <2>1, <3>1, <3>2 DEF Safety!SafetyNext, Safety!BeginControl
  <2>3. CASE Exchange(StopCommand, FALSE) /\ Exit(1)
    <3>1. /\ DrivesOf(held)' = DrivesOf(held) \/ DrivesOf(held)' = Safety!Off
          /\ keepRunning' = keepRunning /\ lateDrives' = lateDrives
      BY <2>3, StopMaps
    <3>2. Stage' = "failed"
      BY <2>3 DEF Exit, Stage
    <3> QED
      BY <2>1, <3>1, <3>2
         DEF Safety!SafetyNext, Safety!End, Safety!Running
  <2> QED
    BY <1>2, <2>2, <2>3 DEF ReadInitial
<1>3. CASE Control /\ LoopExchange
  <2>1. PICK ok \in BOOLEAN : Exchange(command, ok)
    BY <1>3 DEF LoopExchange
  <2>2. /\ contacted /\ contacted' /\ lateDrives = 0
        /\ Stage = "control" /\ Stage' = "control"
    BY <1>3, <2>1 DEF Control, LoopExchange, Exchange, mainVars, SafetyInv, Contact,
       MainLate, Stage
  <2>3. /\ held \in [Axes -> HeldAxis] /\ held' \in [Axes -> HeldAxis]
        /\ command \in [Axes -> AxisCommand]
    BY DEF SafetyInv, DuringHoming, MainTypeInv, TypeInv, TypeOK, RigTypeOK,
       ControlTypeOK
  <2>4. CASE MotorsOff(command)
    <3>1. \A a \in Axes : Latched(command)[a].enable = 0
      BY <2>3, <2>4, LatchedType DEF MotorsOff
    <3>2. held' = held \/ MotorsOff(held')
      BY <2>1, <3>1, ExchangeHeld DEF MotorsOff
    <3>3. DrivesOf(held)' = DrivesOf(held) \/ DrivesOf(held)' = Safety!Off
      BY <2>3, <3>2, DrivesAre
    <3>4. keepRunning' = keepRunning /\ lateDrives' = lateDrives
      BY <2>1, <2>4 DEF Exchange
    <3> QED
      BY <2>2, <3>3, <3>4 DEF Safety!SafetyNext, Safety!Stop, Safety!Running
  <2>5. CASE ~MotorsOff(command)
    <3>1. DrivesOf(held)' \in Safety!Drives
      BY <2>3, DrivesAre
    <3>2. keepRunning' = keepRunning /\ lateDrives' = IF keepRunning THEN 0 ELSE 1
      BY <2>1, <2>2, <2>5 DEF Exchange, LateLimit
    <3>3. ~(lateDrives > 0) /\ (lateDrives' > 0) = ~keepRunning
      BY <2>2, <3>2
    <3> QED
      BY <2>2, <3>1, <3>2, <3>3 DEF Safety!SafetyNext, Safety!Steer, Safety!Enable
  <2> QED
    BY <2>4, <2>5
<1> QED
  BY <1>1, <1>2, <1>3

\* The steps that send nothing: the signal, the exits, and what MotorSafety does
\* not see.
LEMMA OthersMap ==
  ASSUME SafetyInv, SafetyInv', [Next]_vars,
         ~Home, ~HomingStop, ~StopAfterControl, ~ReadInitial,
         ~(Control /\ (ControlStop \/ LoopExchange))
  PROVE  [Safety!SafetyNext]_(Safety!safetyVars)
<1>1. CASE HandleSignal
  <2>1. /\ Stage' = Stage /\ Stage \in {"first", "homing", "control"}
        /\ held' = held /\ keepRunning /\ ~keepRunning' /\ lateDrives' = lateDrives
    BY <1>1 DEF HandleSignal, Signal, mainVars, Stage
  <2> QED
    BY <2>1 DEF Safety!SafetyNext, Safety!SignalCame, Safety!Running
<1>2. CASE \/ HomingReturns \/ Camera \/ ControlReturns \/ Exited \/ UNCHANGED vars
           \/ Control
           \/ ((OpenSpi \/ CheckHoming \/ StartVision) /\ mpc' # "exited")
  <2>1. UNCHANGED rigVars
    BY <1>2 DEF HomingReturns, Camera, PublishSnapshot, ControlReturns, Exited, vars,
       Control, ControlStep, EnterLoop, LoopTest, Compute, Pace, ClockFails,
       OpenSpi, CheckHoming, StartVision
  <2>2. Stage' = Stage
    BY <1>2, <2>1 DEF HomingReturns, Camera, ControlReturns, Exited, vars, mainVars,
       Control, OpenSpi, CheckHoming, StartVision, Goto, Exit, rigVars, Stage
  <2> QED
    BY <2>1, <2>2 DEF rigVars, Safety!safetyVars
<1>3. CASE \/ StopVision
           \/ ((OpenSpi \/ CheckHoming \/ StartVision) /\ mpc' = "exited")
  <2>1. UNCHANGED rigVars /\ exitCode' \in {0, 1, 130}
    BY <1>3 DEF StopVision, OpenSpi, CheckHoming, StartVision, Goto, Exit
  <2>2. /\ Stage \in {"first", "homing", "control"}
        /\ Stage' = IF exitCode' = 1 THEN "failed" ELSE "ended"
    BY <1>3 DEF StopVision, OpenSpi, CheckHoming, StartVision, Goto, Exit, Stage
  <2>3. exitCode' # 1 => DrivesOf(held)' = Safety!Off
    <3>1. exitCode' # 1 => MotorsOff(held')
      BY <2>1 DEF SafetyInv, QuietEnds, QuietExit, MotorsOff
    <3>2. held' \in [Axes -> HeldAxis]
      BY DEF SafetyInv, DuringHoming, MainTypeInv, TypeInv, TypeOK, RigTypeOK
    <3> QED
      BY <3>1, <3>2, DrivesAre
  <2>4. DrivesOf(held)' = DrivesOf(held)
    BY <2>1 DEF rigVars
  <2> QED
    BY <2>1, <2>2, <2>3, <2>4
       DEF rigVars, Safety!SafetyNext, Safety!End, Safety!Running
<1> QED
  BY <1>1, <1>2, <1>3 DEF Next, MainStep

\* The program implements MotorSafety, for every rig, calibration and controller,
\* provided that homing settles for at least one sample.
THEOREM MainImplementsMotorSafety ==
  ASSUME Settle > 0
  PROVE  Spec => ImplementsMotorSafety
<1>1. Spec => []SafetyInv
  <2>1. Init => QuietEnds /\ Contact /\ HomedContact /\ MainLate
    BY QuietEndsInit, ContactInit, MainLateInit DEF Init, HomingInit, HomedContact
  <2>2. DuringHoming /\ QuietEnds /\ Contact /\ HomedContact /\ MainLate /\ [Next]_vars
          => QuietEnds' /\ Contact' /\ HomedContact' /\ MainLate'
    BY QuietEndsStep, ContactStep, HomedContactStep, MainLateStep
       DEF QuietMain, DuringHoming, MainTypeInv
  <2> QED
    BY <2>1, <2>2, DuringHomingHolds, PTL DEF Spec, SafetyInv
<1>2. Init => Safety!SafetyInit
  <2> SUFFICES ASSUME Init PROVE Safety!SafetyInit
    OBVIOUS
  <2>1. held \in [Axes -> HeldAxis]
    BY StaleAssumption DEF Init, RigInit
  <2>2. Stage = "first" /\ keepRunning = TRUE /\ lateDrives = 0
    BY DEF Init, RigInit, Stage
  <2> QED
    BY <2>1, <2>2, DrivesAre DEF Safety!SafetyInit
<1>3. SafetyInv /\ SafetyInv' /\ [Next]_vars => [Safety!SafetyNext]_(Safety!safetyVars)
  BY HomeMaps, ExchangesMap, OthersMap
<1> QED
  BY <1>1, <1>2, <1>3, PTL DEF Spec, ImplementsMotorSafety, Safety!MotorSafetySpec
=============================================================================
