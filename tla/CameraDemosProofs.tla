------------------------- MODULE CameraDemosProofs -------------------------
(***************************************************************************)
(* The lock of green_ball_rpi_preview, for any frames and queue sizes: what *)
(* it keeps together for the drawn dot, and that main clears it only when  *)
(* no callback can come to it any more.                                    *)
(***************************************************************************)
EXTENDS CameraDemos, FiniteSetTheorems, TLAPS

Storing == {"setFound", "setX", "setY", "unlock"}
Reading == {"readFound", "readX", "readY", "unlock"}

\* The lock is held from its taking to its release, by one callback at a time.
Exclusion ==
  /\ lock = "detector" <=> detector \in Storing
  /\ lock = "painter" <=> painter \in Reading

\* The callbacks run only in a pipeline that main has started and not yet stopped,
\* and main clears the lock as its last step.
Stopping ==
  /\ mpc \in {"create", "link", "watch", "play", "free", "exited"} => pipeline = "NULL"
  /\ pipeline = "NULL" => detector = "idle" /\ painter = "idle"
  /\ HasPreview /\ lock = "none" => mpc = "exited"

\* What data holds, also while on_new_sample changes it ...
Stored ==
  /\ found \in BOOLEAN
  /\ found = Green(published)
  /\ detector \in {"setX", "setY"} => frame = published
  /\ found /\ detector # "setX" => x = MeanX(published)
  /\ found /\ detector \notin {"setX", "setY"} => y = MeanY(published)

\* ... and what on_draw_overlay has read of it so far.
Read ==
  /\ painter \in {"readX", "readY", "unlock"} => sawFound = found
  /\ painter \in {"readY", "unlock"} => sawX = x
  /\ painter = "unlock" => sawY = y

DemosInv == Exclusion /\ Stopping /\ Stored /\ Read

LEMMA DemosInit == Init => DemosInv
<1> SUFFICES ASSUME Init PROVE DemosInv
  OBVIOUS
<1>1. Green({}) = FALSE
  BY FS_EmptySet, SizeAssumption DEF Green
<1>2. Stored
  BY <1>1 DEF Init, Stored
<1>3. Exclusion /\ Stopping /\ Read
  BY DEF Init, Exclusion, Storing, Reading, Stopping, HasPreview, Read
<1> QED
  BY <1>2, <1>3 DEF DemosInv

\* main, and the signal that may end it.
LEMMA DemosMainKeeps ==
  ASSUME DemosInv, (mpc # "killed" /\ MainStep) \/ Sigint
  PROVE  DemosInv'
<1> USE DEF DemosInv, Exclusion, Storing, Reading, Stopping, Stored, Read,
            HasPreview, MainGoes, MainFails,
            mainVars, queueVars, dataVars, sawVars, threadVars
<1>1. CASE Create \/ Link \/ Watch \/ Play
  BY <1>1 DEF Create, Link, Watch, Play
<1>2. CASE OnBusMessage \/ AwaitBus \/ OnSigint \/ Unwatch
  BY <1>2 DEF OnBusMessage, AwaitBus, OnSigint, Unwatch
<1>3. CASE StopBegins
  BY <1>3 DEF StopBegins
<1>4. CASE StopEnds
  BY <1>4 DEF StopEnds
<1>5. CASE Free
  BY <1>5 DEF Free
<1>6. CASE Sigint
  BY <1>6 DEF Sigint
<1> QED
  BY <1>1, <1>2, <1>3, <1>4, <1>5, <1>6 DEF MainStep

\* The source, and the detector up to where it takes the lock.
LEMMA DemosFramesKeep ==
  ASSUME DemosInv,
         \/ CameraFrame \/ Tee \/ SampleArrives \/ DrawArrives
         \/ SampleFails \/ SamplePrinted \/ SampleMeasured
  PROVE  DemosInv'
<1> USE DEF DemosInv, Exclusion, Storing, Reading, Stopping, Stored, Read, HasPreview,
        Running, Alive, mainVars, queueVars, dataVars, sawVars
<1>1. CASE CameraFrame \/ Tee
  BY <1>1 DEF CameraFrame, Tee
<1>2. CASE SampleArrives \/ DrawArrives
  BY <1>2 DEF SampleArrives, DrawArrives
<1>3. CASE SampleFails \/ SamplePrinted \/ SampleMeasured
  BY <1>3 DEF SampleFails, SamplePrinted, SampleMeasured
<1> QED
  BY <1>1, <1>2, <1>3

\* The two critical sections.
LEMMA DemosLockedKeep ==
  ASSUME DemosInv, SampleLocks \/ SampleStores \/ SampleUnlocks \/ DrawStep
  PROVE  DemosInv'
<1> USE DEF DemosInv, Exclusion, Storing, Reading, Stopping, Stored, Read, HasPreview,
        Running, Alive, mainVars, queueVars, dataVars, sawVars
<1>1. CASE SampleLocks \/ SampleUnlocks
  BY <1>1 DEF SampleLocks, SampleUnlocks
<1>2. CASE SampleStores
  <2>1. CASE detector = "setFound"
    <3>1. Green(frame) \in BOOLEAN
      BY DEF Green
    <3> QED
      BY <1>2, <2>1, <3>1 DEF SampleStores
  <2>2. CASE detector = "setX"
    BY <1>2, <2>2 DEF SampleStores
  <2>3. CASE detector = "setY"
    BY <1>2, <2>3 DEF SampleStores
  <2> QED
    BY <1>2, <2>1, <2>2, <2>3 DEF SampleStores
<1>3. CASE DrawLocks \/ DrawUnlocks \/ Draw
  BY <1>3 DEF DrawLocks, DrawUnlocks, Draw
<1>4. CASE DrawReads
  BY <1>4 DEF DrawReads
<1> QED
  BY <1>1, <1>2, <1>3, <1>4 DEF DrawStep

LEMMA DemosInvHolds == Spec => []DemosInv
<1>1. DemosInv /\ [Next]_vars => DemosInv'
  <2> SUFFICES ASSUME DemosInv, [Next]_vars PROVE DemosInv'
    OBVIOUS
  <2>1. CASE UNCHANGED vars
    BY <2>1 DEF vars, mainVars, queueVars, dataVars, sawVars, threadVars, DemosInv,
      Exclusion, Stopping, Stored, Read, HasPreview
  <2>2. CASE Next
    BY <2>1, <2>2, DemosMainKeeps, DemosFramesKeep, DemosLockedKeep
    DEF Next, StreamStep, SampleStep, Ended
  <2> QED
    BY <2>1, <2>2
<1> QED
  BY <1>1, DemosInit, PTL DEF Spec

\* on_draw_overlay draws the result of one frame: a detection that comes while it
\* reads waits for the lock, whatever the two branches of the pipeline have queued.
THEOREM DotShowsOneFrame == Spec => []DotIsOfOneFrame
<1>1. DemosInv => DotIsOfOneFrame
  BY DEF DemosInv, Exclusion, Reading, Storing, Stored, Read, DotIsOfOneFrame
<1> QED
  BY <1>1, DemosInvHolds, PTL

\* main clears the lock only when no callback runs and none can start, whether the
\* run failed early, ended by itself or was interrupted.
THEOREM LockClearedLast == Spec => []LockOutlivesCallbacks
<1>1. DemosInv => LockOutlivesCallbacks
  BY DEF DemosInv, Stopping, LockOutlivesCallbacks
<1> QED
  BY <1>1, DemosInvHolds, PTL
=============================================================================
