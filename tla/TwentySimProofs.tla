-------------------------- MODULE TwentySimProofs --------------------------
(***************************************************************************)
(* The integrators of the generated controllers do not wind up, for every  *)
(* tuning, every limit and every sequence of targets and positions.        *)
(*                                                                         *)
(* Bounding uI is not inductive: a sample whose error has the other sign   *)
(* is integrated while the output is saturated, with a derivative part     *)
(* that raises uI when the error rises.  What does not grow is the larger  *)
(* of uI and uI less Derivative times the error: what a rise of the error  *)
(* adds to uI was there as a negative error before.                        *)
(***************************************************************************)
EXTENDS TwentySim, TLAPS

ErrorRange == -MaxError .. MaxError

\* Neither u nor the potential u - Derivative * e, for an error e and a uI of
\* u, is further outside the output's range than Reserve.
Within(a, e, u) ==
  /\ u <= OutputMax[a] + Reserve(a)
  /\ u - Derivative[a] * e <= OutputMax[a] + Reserve(a)
  /\ OutputMin[a] - Reserve(a) <= u
  /\ OutputMin[a] - Reserve(a) <= u - Derivative[a] * e

ModelOK(a, m) ==
  /\ m.R.error \in ErrorRange
  /\ m.R.uI \in Int
  /\ Within(a, m.R.error, m.R.uI)

IInv == /\ ready \in BOOLEAN
        /\ \A a \in Axes : ModelOK(a, model[a])

(***************************************************************************)
(* Products                                                                *)
(***************************************************************************)
\* Multiplication by a natural number keeps the order.
LEMMA TimesKeepsOrder ==
  ASSUME NEW k \in Nat, NEW m \in Int, NEW n \in Int, m <= n
  PROVE  k * m \in Int /\ k * n \in Int /\ k * m <= k * n
<1>1. k * (n - m) >= 0
  OBVIOUS
<1>2. k * (n - m) = k * n - k * m
  OBVIOUS
<1> QED
  BY <1>1, <1>2

\* A product with a natural number is bounded as its other factor is.
LEMMA TimesWithin ==
  ASSUME NEW k \in Nat, NEW m \in Int, NEW n \in Nat, -n <= m, m <= n
  PROVE  k * m \in Int /\ k * n \in Nat /\ -(k * n) <= k * m /\ k * m <= k * n
<1>1. k * m <= k * n /\ k * m \in Int /\ k * n \in Int
  BY TimesKeepsOrder
<1>2. k * (-n) <= k * m
  BY TimesKeepsOrder
<1>3. k * (-n) = -(k * n)
  OBVIOUS
<1>4. k * 0 <= k * n
  BY TimesKeepsOrder
<1> QED
  BY <1>1, <1>2, <1>3, <1>4

\* A product with a natural number has the sign of its other factor.
LEMMA TimesKeepsSign ==
  ASSUME NEW k \in Nat, NEW m \in Int
  PROVE  (m <= 0 => k * m <= 0) /\ (m >= 0 => k * m >= 0)
<1>1. m <= 0 => k * m <= k * 0
  BY TimesKeepsOrder
<1>2. m >= 0 => k * 0 <= k * m
  BY TimesKeepsOrder
<1> QED
  BY <1>1, <1>2

\* A change of uI splits into products and is bounded.
LEMMA ChangeBounded ==
  ASSUME NEW d \in Nat, NEW emax \in Nat,
         NEW e \in -emax .. emax, NEW f \in -emax .. emax
  PROVE  /\ f + d * (f - e) \in Int
         /\ f + d * (f - e) = f + d * f - d * e
         /\ -(emax + d * (2 * emax)) <= f + d * (f - e)
         /\ f + d * (f - e) <= emax + d * (2 * emax)
<1>1. d * (f - e) \in Int /\ d * (2 * emax) \in Nat
      /\ -(d * (2 * emax)) <= d * (f - e) /\ d * (f - e) <= d * (2 * emax)
  <2>1. f - e \in Int /\ 2 * emax \in Nat /\ -(2 * emax) <= f - e /\ f - e <= 2 * emax
    OBVIOUS
  <2> QED
    BY <2>1, TimesWithin
<1>2. d * e \in Int /\ d * f \in Int /\ d * (f - e) = d * f - d * e
  OBVIOUS
<1> QED
  BY <1>1, <1>2

(***************************************************************************)
(* One sample of one axis, over plain numbers: f is the new error, p and q *)
(* are Derivative times the old and the new error, with q within g, w is   *)
(* the new uD and within h, and u and v are the old and the new uI.        *)
(***************************************************************************)
\* The potentials stay within c + g + h of the limits, if c bounds the change:
\* a held integrator leaves them, an integrated one is inside the limit or
\* gains no more than its potential held.
LEMMA PotentialsKept ==
  ASSUME NEW f \in Int, NEW p \in Int, NEW q \in Int, NEW w \in Int,
         NEW c \in Nat, NEW g \in Nat, NEW h \in Nat,
         NEW max \in Int, NEW min \in Int, min <= 0, 0 <= max,
         NEW u \in Int, NEW change \in Int, NEW r \in Int, NEW v \in Int,
         -g <= q, q <= g, -h <= w, w <= h, -c <= change, change <= c,
         f <= 0 => q <= 0, f >= 0 => q >= 0,
         change = f + q - p,
         v = IF \/ u + change + w > max /\ f > 0
                \/ u + change + w < min /\ f < 0
             THEN u ELSE u + change,
         r = c + g + h,
         u <= max + r, u - p <= max + r, min - r <= u, min - r <= u - p
  PROVE  v <= max + r /\ v - q <= max + r /\ min - r <= v /\ min - r <= v - q
<1>1. CASE u + change + w > max /\ f > 0
  BY <1>1
<1>2. CASE u + change + w < min /\ f < 0
  BY <1>2
<1>3. CASE /\ ~(u + change + w > max /\ f > 0)
           /\ ~(u + change + w < min /\ f < 0)
  <2>1. v = u + change
    BY <1>3
  <2>2. CASE f > 0
    BY <1>3, <2>1, <2>2
  <2>3. CASE f < 0
    BY <1>3, <2>1, <2>3
  <2>4. CASE f = 0
    BY <2>1, <2>4
  <2> QED
    BY <2>2, <2>3, <2>4
<1> QED
  BY <1>1, <1>2, <1>3

(***************************************************************************)
(* The model                                                               *)
(***************************************************************************)
\* The constants of an axis are numbers.
LEMMA ConstantsOK ==
  ASSUME NEW a \in Axes
  PROVE  /\ Derivative[a] \in Nat /\ Integral[a] \in Nat /\ MaxError \in Nat
         /\ OutputMin[a] \in Int /\ OutputMax[a] \in Int
         /\ OutputMin[a] <= 0 /\ 0 <= OutputMax[a]
         /\ Derivative[a] * MaxError \in Nat
         /\ MaxChange(a) \in Nat /\ Integral[a] * MaxChange(a) \in Nat
         /\ Reserve(a) \in Nat
         /\ Reserve(a) = MaxChange(a) + Derivative[a] * MaxError
                           + Integral[a] * MaxChange(a)
<1> DEFINE d == Derivative[a]
           t == Integral[a]
           c == MaxChange(a)
<1>1. /\ d \in Nat /\ t \in Nat /\ MaxError \in Nat
      /\ OutputMin[a] \in Int /\ OutputMax[a] \in Int
      /\ OutputMin[a] <= 0 /\ 0 <= OutputMax[a]
  BY TuningAssumption, InputAssumption
<1>2. c = MaxError + d * (2 * MaxError)
  BY DEF MaxChange
<1>3. Reserve(a) = (t + 1) * c + d * MaxError
  BY DEF Reserve
<1> HIDE DEF d, t, c
<1>4. d * (2 * MaxError) \in Nat /\ d * MaxError \in Nat
  BY <1>1, TimesWithin
<1>5. c \in Nat
  BY <1>1, <1>2, <1>4
<1>6. t * c \in Nat
  BY <1>1, <1>5, TimesWithin
<1>7. (t + 1) * c = t * c + c
  BY <1>1, <1>5
<1>8. Reserve(a) = c + d * MaxError + t * c
  BY <1>3, <1>4, <1>5, <1>6, <1>7
<1>9. Reserve(a) \in Nat
  BY <1>8, <1>4, <1>5, <1>6
<1> USE DEF d, t, c
<1> QED
  BY <1>1, <1>4, <1>5, <1>6, <1>8, <1>9

\* A sample with the error f keeps one axis within its bounds, from the zero
\* states of the initialisation as well as from those of the last sample.
LEMMA SampleOK ==
  ASSUME NEW a \in Axes, NEW s, NEW f \in ErrorRange,
         s.error \in ErrorRange, s.uI \in Int, Within(a, s.error, s.uI),
         NEW m, m.R = NewStates(a, s, f)
  PROVE  ModelOK(a, m)
<1> DEFINE d == Derivative[a]
           t == Integral[a]
           c == MaxChange(a)
           e == s.error
           u == s.uI
           v == m.R.uI
           change == Change(a, s, f)
           r == Reserve(a)
           max == OutputMax[a]
           min == OutputMin[a]
<1>1. /\ d \in Nat /\ t \in Nat /\ MaxError \in Nat /\ c \in Nat
      /\ max \in Int /\ min \in Int /\ min <= 0 /\ 0 <= max
      /\ d * MaxError \in Nat /\ t * c \in Nat /\ r \in Int
      /\ r = c + d * MaxError + t * c
  BY ConstantsOK
<1>2. e \in -MaxError .. MaxError /\ f \in -MaxError .. MaxError /\ u \in Int
  BY DEF ErrorRange
<1>3. /\ u <= max + r /\ u - d * e <= max + r
      /\ min - r <= u /\ min - r <= u - d * e
  BY DEF Within
<1>4. change = f + d * (f - e) /\ c = MaxError + d * (2 * MaxError)
  BY DEF Change, MaxChange
<1>5. m.R.error = f
  BY DEF NewStates
<1>6. v = IF \/ u + change + t * change > max /\ f > 0
             \/ u + change + t * change < min /\ f < 0
          THEN u ELSE u + change
  BY DEF NewStates, Saturated
<1>7. /\ v <= max + r /\ v - d * f <= max + r
      /\ min - r <= v /\ min - r <= v - d * f /\ v \in Int
  <2> HIDE DEF d, t, c, e, u, v, change, r, max, min
  <2>1. /\ change \in Int /\ change = f + d * f - d * e
        /\ -c <= change /\ change <= c
    BY <1>1, <1>2, <1>4, ChangeBounded
  <2>2. d * e \in Int /\ d * f \in Int
    BY <1>1, <1>2
  <2>3. -(d * MaxError) <= d * f /\ d * f <= d * MaxError
    BY <1>1, <1>2, TimesWithin
  <2>4. (f <= 0 => d * f <= 0) /\ (f >= 0 => d * f >= 0)
    BY <1>1, <1>2, TimesKeepsSign
  <2>5. t * change \in Int /\ -(t * c) <= t * change /\ t * change <= t * c
    BY <1>1, <2>1, TimesWithin
  <2> DEFINE p == d * e
             q == d * f
             w == t * change
             g == d * MaxError
             h == t * c
  <2>6. /\ f \in Int /\ p \in Int /\ q \in Int /\ w \in Int /\ g \in Nat /\ h \in Nat
        /\ -g <= q /\ q <= g /\ -h <= w /\ w <= h
        /\ (f <= 0 => q <= 0) /\ (f >= 0 => q >= 0)
        /\ change = f + q - p /\ r = c + g + h
        /\ u - p <= max + r /\ min - r <= u - p
    BY <1>1, <1>2, <1>3, <2>1, <2>2, <2>3, <2>4, <2>5
  <2>7. v = IF \/ u + change + w > max /\ f > 0
               \/ u + change + w < min /\ f < 0
            THEN u ELSE u + change
    BY <1>6
  <2> HIDE DEF p, q, w, g, h
  <2>8. v \in Int
    BY <1>2, <2>1, <2>7
  <2>9. v <= max + r /\ v - q <= max + r /\ min - r <= v /\ min - r <= v - q
    BY <1>1, <1>2, <1>3, <2>1, <2>6, <2>7, <2>8, PotentialsKept
  <2> QED
    BY <2>8, <2>9 DEF q
<1> QED
  BY <1>5, <1>7 DEF ModelOK, Within, ErrorRange

\* The inputs of both submodels have errors within MaxError.
LEMMA InputsOK ==
  ASSUME NEW u \in YawInputs, NEW v \in PitchInputs
  PROVE  u.in - u.position \in ErrorRange /\ v.in - v.position \in ErrorRange
<1>1. /\ u.in \in Targets["yaw"] /\ u.position \in Positions["yaw"]
      /\ v.in \in Targets["pitch"] /\ v.position \in Positions["pitch"]
  BY DEF YawInputs, PitchInputs
<1>2. "yaw" \in Axes /\ "pitch" \in Axes
  BY DEF Axes
<1>3. /\ u.in \in Int /\ u.position \in Int /\ v.in \in Int /\ v.position \in Int
  BY <1>1, <1>2, InputAssumption
<1>4. /\ -MaxError <= u.in - u.position /\ u.in - u.position <= MaxError
      /\ -MaxError <= v.in - v.position /\ v.in - v.position <= MaxError
  BY <1>1, <1>2, InputAssumption
<1> QED
  BY <1>3, <1>4, InputAssumption DEF ErrorRange

\* Zero states are within the bounds.
LEMMA ZeroOK ==
  ASSUME NEW a \in Axes
  PROVE  0 \in ErrorRange /\ Within(a, 0, 0)
<1>1. Derivative[a] * 0 = 0
  BY ConstantsOK
<1> QED
  BY <1>1, ConstantsOK DEF ErrorRange, Within

LEMMA InitOK == Init => IInv
<1> SUFFICES ASSUME Init PROVE IInv
  OBVIOUS
<1>1. ASSUME NEW a \in Axes PROVE ModelOK(a, model[a])
  <2>1. model[a].R.error = 0 /\ model[a].R.uI = 0
    BY <1>1 DEF Init, YawModelInitialize
  <2> QED
    BY <2>1, <1>1, ZeroOK DEF ModelOK
<1> QED
  BY <1>1 DEF IInv, Init

\* Two models that are within their bounds make the next state so.
LEMMA BothOK ==
  ASSUME ready' \in BOOLEAN, NEW m, NEW n,
         ModelOK("yaw", m), ModelOK("pitch", n),
         model' = [yaw |-> m, pitch |-> n]
  PROVE  IInv'
<1>1. ASSUME NEW a \in Axes PROVE ModelOK(a, model'[a])
  <2>1. CASE a = "yaw"
    BY <2>1
  <2>2. CASE a = "pitch"
    BY <2>2
  <2> QED
    BY <2>1, <2>2 DEF Axes
<1> QED
  BY <1>1 DEF IInv, ModelOK, Within

LEMMA StepOK == IInv /\ [Next]_vars => IInv'
<1> SUFFICES ASSUME IInv, [Next]_vars PROVE IInv'
  OBVIOUS
<1>1. "yaw" \in Axes /\ "pitch" \in Axes
  BY DEF Axes
<1>2. CASE TwentySimInit
  <2>1. PICK u \in YawInputs, v \in PitchInputs :
          model' = [yaw |-> YawInitializeSubmodel(u),
                    pitch |-> PitchInitializeSubmodel(v)]
    BY <1>2 DEF TwentySimInit
  <2>2. u.in - u.position \in ErrorRange /\ v.in - v.position \in ErrorRange
    BY InputsOK
  <2>3. /\ YawModelInitialize.error = 0 /\ YawModelInitialize.uI = 0
        /\ PitchModelInitialize.error = 0 /\ PitchModelInitialize.uI = 0
    BY DEF YawModelInitialize, PitchModelInitialize
  <2>4. /\ YawInitializeSubmodel(u).R
             = NewStates("yaw", YawModelInitialize, u.in - u.position)
        /\ PitchInitializeSubmodel(v).R
             = NewStates("pitch", PitchModelInitialize, v.in - v.position)
    BY DEF YawInitializeSubmodel, YawCalculateDynamic, PitchInitializeSubmodel,
           PitchCalculateDynamic
  <2>5. ModelOK("yaw", YawInitializeSubmodel(u))
    BY <1>1, <2>2, <2>3, <2>4, SampleOK, ZeroOK
  <2>6. ModelOK("pitch", PitchInitializeSubmodel(v))
    BY <1>1, <2>2, <2>3, <2>4, SampleOK, ZeroOK
  <2>7. ready' \in BOOLEAN
    BY <1>2 DEF TwentySimInit
  <2> QED
    BY <2>1, <2>5, <2>6, <2>7, BothOK
<1>3. CASE TwentySimStep
  <2>1. PICK u \in YawInputs, v \in PitchInputs :
          model' = [yaw |-> YawCalculateSubmodel(model["yaw"], u),
                    pitch |-> PitchCalculateSubmodel(model["pitch"], v)]
    BY <1>3 DEF TwentySimStep
  <2>2. u.in - u.position \in ErrorRange /\ v.in - v.position \in ErrorRange
    BY InputsOK
  <2>3. /\ model["yaw"].R.error \in ErrorRange /\ model["yaw"].R.uI \in Int
        /\ Within("yaw", model["yaw"].R.error, model["yaw"].R.uI)
        /\ model["pitch"].R.error \in ErrorRange /\ model["pitch"].R.uI \in Int
        /\ Within("pitch", model["pitch"].R.error, model["pitch"].R.uI)
    BY <1>1 DEF IInv, ModelOK
  <2>4. /\ YawCalculateSubmodel(model["yaw"], u).R
             = NewStates("yaw", model["yaw"].R, u.in - u.position)
        /\ PitchCalculateSubmodel(model["pitch"], v).R
             = NewStates("pitch", model["pitch"].R, v.in - v.position)
    BY DEF YawCalculateSubmodel, YawDiscreteStep, YawCalculateDynamic,
           PitchCalculateSubmodel, PitchDiscreteStep, PitchCalculateDynamic
  <2>5. ModelOK("yaw", YawCalculateSubmodel(model["yaw"], u))
    BY <1>1, <2>2, <2>3, <2>4, SampleOK
  <2>6. ModelOK("pitch", PitchCalculateSubmodel(model["pitch"], v))
    BY <1>1, <2>2, <2>3, <2>4, SampleOK
  <2>7. ready' \in BOOLEAN
    BY <1>3 DEF TwentySimStep, IInv
  <2> QED
    BY <2>1, <2>5, <2>6, <2>7, BothOK
<1>4. CASE UNCHANGED vars
  BY <1>4 DEF vars, IInv, ModelOK, Within
<1> QED
  BY <1>2, <1>3, <1>4 DEF Next

\* yaw_model.c, pitch_model.c: the hold of the integrator keeps it within
\* Reserve of the output limits, whatever follows in targets and positions.
THEOREM ControllerIntegratorBounded == Spec => []IntegratorBounded
<1>1. IInv => IntegratorBounded
  BY DEF IInv, ModelOK, Within, IntegratorBounded
<1> QED
  BY <1>1, InitOK, StepOK, PTL DEF Spec

(***************************************************************************)
(* The derivative action sees the change of the error only.                *)
(***************************************************************************)
\* The error that the derivative action remembers is that of the last inputs.
Remembered == \A a \in Axes : model[a].diff \in Int /\ model[a].R.error = model[a].diff

\* One sample of one axis, after one with the same difference.
LEMMA NoChangeNoKick ==
  ASSUME NEW a \in Axes, NEW s, NEW d \in Int, s.error = d
  PROVE  NewStates(a, s, d).uD = Integral[a] * d
<1>1. Derivative[a] \in Nat
  BY TuningAssumption
<1>2. Change(a, s, d) = d
  BY <1>1 DEF Change
<1> QED
  BY <1>2 DEF NewStates

\* What a sample makes of both models.
LEMMA SampleRemembers ==
  ASSUME NEW u \in YawInputs, NEW v \in PitchInputs, NEW s, NEW t,
         model' = [yaw |-> YawCalculateDynamic(s, u),
                   pitch |-> PitchCalculateDynamic(t, v)]
  PROVE  /\ Remembered'
         /\ model'["yaw"].R = NewStates("yaw", s, model'["yaw"].diff)
         /\ model'["pitch"].R = NewStates("pitch", t, model'["pitch"].diff)
<1> DEFINE d == u.in - u.position
           e == v.in - v.position
<1>1. d \in Int /\ e \in Int
  BY InputsOK, InputAssumption DEF ErrorRange
<1>2. /\ model'["yaw"].diff = d /\ model'["yaw"].R = NewStates("yaw", s, d)
      /\ model'["pitch"].diff = e /\ model'["pitch"].R = NewStates("pitch", t, e)
  BY DEF YawCalculateDynamic, PitchCalculateDynamic
<1>3. NewStates("yaw", s, d).error = d /\ NewStates("pitch", t, e).error = e
  BY DEF NewStates
<1> HIDE DEF d, e
<1>4. ASSUME NEW a \in Axes
      PROVE  model'[a].diff \in Int /\ model'[a].R.error = model'[a].diff
  BY <1>1, <1>2, <1>3, <1>4 DEF Axes
<1> QED
  BY <1>2, <1>4 DEF Remembered

\* main.c: "Seed the generated controller with the first post-homing feedback
\* sample so its initial error is consistent": an axis whose inputs did not change
\* since the last sample, or since the initialisation, gets no derivative action
\* but the proportional part, for every tuning.
THEOREM ControllerDoesNotKick == Spec => NoDerivativeKick
<1> DEFINE NoKick == ready => \A a \in Axes :
             model'[a].diff = model[a].diff =>
               model'[a].R.uD = Integral[a] * model'[a].diff
<1>1. Init => Remembered
  BY DEF Init, Remembered, YawModelInitialize
<1>2. ASSUME Remembered, TwentySimInit PROVE Remembered' /\ NoKick
  <2>1. PICK u \in YawInputs, v \in PitchInputs :
          model' = [yaw |-> YawCalculateDynamic(YawModelInitialize, u),
                    pitch |-> PitchCalculateDynamic(PitchModelInitialize, v)]
    BY <1>2 DEF TwentySimInit, YawInitializeSubmodel, PitchInitializeSubmodel
  <2> QED
    BY <1>2, <2>1, SampleRemembers DEF TwentySimInit
<1>3. ASSUME Remembered, TwentySimStep PROVE Remembered' /\ NoKick
  <2>1. PICK u \in YawInputs, v \in PitchInputs :
          model' = [yaw |-> YawCalculateDynamic(model["yaw"].R, u),
                    pitch |-> PitchCalculateDynamic(model["pitch"].R, v)]
    BY <1>3 DEF TwentySimStep, YawCalculateSubmodel, YawDiscreteStep,
                PitchCalculateSubmodel, PitchDiscreteStep
  <2>2. /\ Remembered'
        /\ model'["yaw"].R = NewStates("yaw", model["yaw"].R, model'["yaw"].diff)
        /\ model'["pitch"].R = NewStates("pitch", model["pitch"].R, model'["pitch"].diff)
    BY <2>1, SampleRemembers
  <2>3. ASSUME NEW a \in Axes, model'[a].diff = model[a].diff
        PROVE  model'[a].R.uD = Integral[a] * model'[a].diff
    <3>1. model[a].diff \in Int /\ model[a].R.error = model[a].diff
      BY <1>3, <2>3 DEF Remembered
    <3>2. model'[a].R = NewStates(a, model[a].R, model'[a].diff)
      BY <2>2, <2>3 DEF Axes
    <3> QED
      BY <2>3, <3>1, <3>2, NoChangeNoKick
  <2> QED
    BY <2>2, <2>3
<1>4. Remembered /\ [Next]_vars => Remembered' /\ [NoKick]_vars
  <2>1. Remembered /\ UNCHANGED vars => Remembered'
    BY DEF Remembered, vars
  <2> QED
    BY <1>2, <1>3, <2>1 DEF Next
<1> QED
  BY <1>1, <1>4, PTL DEF Spec, NoDerivativeKick
=============================================================================
