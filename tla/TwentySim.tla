----------------------------- MODULE TwentySim -----------------------------
(***************************************************************************)
(* The two controllers 20-sim generated, and the wrapper that initialises  *)
(* and steps them: a PID with its integrator behind the derivative action, *)
(* held by hand-written code while the output is saturated.                *)
(*                                                                         *)
(* The tuning has beta = 0, so the arithmetic is exact in the unit         *)
(* kp * step_size / tauI per unit of angle, with tauD and tauI counted in  *)
(* samples.  Rounding of doubles is left out, and so are the sample and    *)
(* time counters, which nothing reads.                                     *)
(***************************************************************************)
EXTENDS Integers

CONSTANTS
  Derivative, \* per axis: tauD / step_size
  Integral,   \* per axis: tauI / step_size
  CorrGain,   \* corrGain\K of the pitch model
  OutputMin, OutputMax, \* per axis: the limits of the output
  Targets,    \* per axis: the clamped targets, in units of angle
  Positions,  \* per axis: what the encoders can show, in units of angle
  MaxError    \* the largest difference of the two

Axes == {"yaw", "pitch"}

ASSUME TuningAssumption ==
  /\ Derivative \in [Axes -> Nat] /\ Integral \in [Axes -> Nat]
  /\ CorrGain \in Int
  /\ OutputMin \in [Axes -> Int] /\ OutputMax \in [Axes -> Int]
  /\ \A a \in Axes : OutputMin[a] <= 0 /\ 0 <= OutputMax[a]
ASSUME InputAssumption ==
  /\ Targets \in [Axes -> SUBSET Int] /\ Positions \in [Axes -> SUBSET Int]
  /\ MaxError \in Nat
  /\ \A a \in Axes : \A t \in Targets[a], p \in Positions[a] :
       -MaxError <= t - p /\ t - p <= MaxError

VARIABLES
  ready, \* twentysim_controller_init was called
  model  \* per axis: states s, new states R, the output, and of the inputs
         \* the difference of target and position, which is all that counts

vars == <<ready, model>>

\* The derivative and the integral action and the error, as states.
States == [uD : Int, error : Int, uI : Int]

TypeOK ==
  /\ ready \in BOOLEAN
  /\ model \in [Axes -> [diff : Int, s : States, R : States, out : Int]]
  /\ \A a \in Axes : model[a].out \in OutputMin[a] .. OutputMax[a]

(***************************************************************************)
(* The PID of both models                                                  *)
(***************************************************************************)
Limit(a, u) == IF u < OutputMin[a] THEN OutputMin[a]
               ELSE IF u > OutputMax[a] THEN OutputMax[a]
               ELSE u

\* uD in units of 1 / tauI: the error and its change since the last sample.
Change(a, s, error) == error + Derivative[a] * (error - s.error)

\* Mutant of Saturated: the sign of the error is taken the wrong way round for
\* the upper limit.
SaturatedWrongSign(a, u, error) ==
  \/ u > OutputMax[a] /\ error < 0
  \/ u < OutputMin[a] /\ error < 0

\* The output would leave its range and the error pushes it further out.
Saturated(a, u, error) ==
  \/ u > OutputMax[a] /\ error > 0
  \/ u < OutputMin[a] /\ error < 0

NewStates(a, s, error) ==
  LET change == Change(a, s, error)
      uD == Integral[a] * change
      candidate == s.uI + change
  IN  [uD |-> uD, error |-> error,
       uI |-> IF Saturated(a, candidate + uD, error) THEN s.uI ELSE candidate]

(***************************************************************************)
(* Yaw                                                                     *)
(***************************************************************************)
YawModelInitialize == [uD |-> 0, error |-> 0, uI |-> 0]

\* The corr output of this model is not connected.
YawCalculateDynamic(s, u) ==
  LET R == NewStates("yaw", s, u.in - u.position)
  IN  [diff |-> u.in - u.position, s |-> s, R |-> R,
       out |-> Limit("yaw", R.uI + R.uD)]

YawInitializeSubmodel(u) == YawCalculateDynamic(YawModelInitialize, u)

YawDiscreteStep(m, u) == YawCalculateDynamic(m.R, u)

YawCalculateSubmodel(m, u) == YawDiscreteStep(m, u)

(***************************************************************************)
(* Pitch: corrGain is added to the output, after the integrator was held.  *)
(***************************************************************************)
PitchModelInitialize == [uD |-> 0, error |-> 0, uI |-> 0]

PitchCalculateDynamic(s, u) ==
  LET R == NewStates("pitch", s, u.in - u.position)
  IN  [diff |-> u.in - u.position, s |-> s, R |-> R,
       out |-> Limit("pitch", CorrGain * u.corr + R.uI + R.uD)]

\* Mutant of PitchInitializeSubmodel: the model is not calculated once.
PitchInitializeSubmodelOnly(u) ==
  [diff |-> u.in - u.position, s |-> PitchModelInitialize,
   R |-> PitchModelInitialize, out |-> 0]

PitchInitializeSubmodel(u) == PitchCalculateDynamic(PitchModelInitialize, u)

PitchDiscreteStep(m, u) == PitchCalculateDynamic(m.R, u)

PitchCalculateSubmodel(m, u) == PitchDiscreteStep(m, u)

(***************************************************************************)
(* The wrapper                                                             *)
(***************************************************************************)
YawInputs == [in : Targets["yaw"], position : Positions["yaw"]]
PitchInputs ==
  [corr : {0}, in : Targets["pitch"], position : Positions["pitch"]]

\* All arrays are zero before the program comes here.
Init ==
  /\ ready = FALSE
  /\ model = [a \in Axes |-> [diff |-> 0, s |-> YawModelInitialize,
                              R |-> YawModelInitialize, out |-> 0]]

TwentySimInit ==
  /\ ~ready /\ ready' = TRUE
  /\ \E u \in YawInputs, v \in PitchInputs :
       model' = [yaw |-> YawInitializeSubmodel(u),
                 pitch |-> PitchInitializeSubmodel(v)]

TwentySimStep ==
  /\ ready /\ UNCHANGED ready
  /\ \E u \in YawInputs, v \in PitchInputs :
       model' = [yaw |-> YawCalculateSubmodel(model["yaw"], u),
                 pitch |-> PitchCalculateSubmodel(model["pitch"], v)]

Next == TwentySimInit \/ TwentySimStep

(***************************************************************************)
(* Fairness: the control loop goes on sampling (LoopTiming).  What the     *)
(* camera, the schedule and the axes do is not promised.                   *)
(***************************************************************************)
Spec == Init /\ [][Next]_vars /\ WF_vars(Next)

(***************************************************************************)
(* Properties                                                              *)
(***************************************************************************)
Top(m, n) == IF m >= n THEN m ELSE n

\* The largest change of uI in a sample.
MaxChange(a) == MaxError + Derivative[a] * (2 * MaxError)

Reserve(a) == (Integral[a] + 1) * MaxChange(a) + Derivative[a] * MaxError

\* Whatever targets and positions follow one another, and however often the
\* error crosses zero while the output is at a limit, the integrator does not
\* wind up: it stays within a fixed distance of the limits.  Samples whose
\* error has the other sign are integrated while the output is saturated, so
\* this does not follow from the hold alone.
IntegratorBounded ==
  \A a \in Axes :
    /\ model[a].R.uI <= OutputMax[a] + Reserve(a)
    /\ OutputMin[a] - Reserve(a) <= model[a].R.uI

\* main.c: "Seed the generated controller with the first post-homing feedback
\* sample so its initial error is consistent": the derivative action sees the
\* change between the inputs of consecutive samples only, so the first sample
\* after the initialisation does not kick the motor with the whole error, and
\* neither does any sample of an axis that stands still.
NoDerivativeKick ==
  [][ready => \A a \in Axes :
        model'[a].diff = model[a].diff =>
          model'[a].R.uD = Integral[a] * model'[a].diff]_vars

\* A saturated output comes back: once the error has, and keeps, the opposite
\* sign, the output is away from its limit again and again, however long it
\* was saturated before.
Unwinds ==
  \A a \in Axes :
    /\ <>[](ready /\ model[a].R.error < 0) => []<>(model[a].out < OutputMax[a])
    /\ <>[](ready /\ model[a].R.error > 0) => []<>(model[a].out > OutputMin[a])
=============================================================================
