---------------------------- MODULE CameraDemos ----------------------------
(***************************************************************************)
(* The camera programs of lab15 and lab06: green_ball_rpi_preview, which   *)
(* detects in one branch of its pipeline and draws a dot in the other,     *)
(* green_ball_rpi_headless, which only detects, and appsink_pipeline, which*)
(* waits for the end of its pipeline without a main loop.  The main thread,*)
(* GStreamer's streaming threads, the bus and SIGINT are interleaved.      *)
(***************************************************************************)
EXTENDS Integers, FiniteSets, FiniteSetsExt

CONSTANTS
  Frames,    \* what a frame can show: the set of its green pixels
  MinGreen,  \* MIN_GREEN_PIXELS
  QueueSize  \* frames a queue element takes before it blocks

ASSUME FramesAssumption == \A f \in Frames : IsFiniteSet(f) /\ f \subseteq Nat \X Nat
ASSUME SizeAssumption == MinGreen \in Nat \ {0} /\ QueueSize \in Nat \ {0}

VARIABLES
  program,   \* which of the programs runs
  mpc,       \* where its main is
  exitCode,  \* exit_code
  watching,  \* g_unix_signal_add is in force
  interrupt, \* a SIGINT that main has not handled
  bus,       \* kinds of the messages on the bus: "ERROR", "EOS"
  pipeline,  \* state of the pipeline: "NULL", "PLAYING", "stopping"
  camera,    \* what the source's thread does: "idle", "pushDetect", "pushPreview", "ended"
  detectQueue, previewQueue, \* number of frames in the queues behind the tee
  detector,  \* where the thread that runs on_new_sample is
  frame,     \* the frame it works on
  painter,   \* where the thread that runs on_draw_overlay is
  lock,      \* who holds data.lock, or "free", or "none" when it is no lock
  found, x, y,    \* data.object_found, data.object_x, data.object_y
  sawFound, sawX, sawY, \* object_found, x and y of on_draw_overlay
  published  \* observer: the frame whose result data holds

mainVars == <<program, mpc, exitCode, watching>>
queueVars == <<camera, detectQueue, previewQueue>>
dataVars == <<found, x, y, published>>
sawVars == <<sawFound, sawX, sawY>>
threadVars == <<queueVars, detector, frame, painter, lock, dataVars, sawVars>>
vars == <<mainVars, interrupt, bus, pipeline, threadVars>>

Programs == {"preview", "headless", "appsink"}
HasLoop == program # "appsink"
HasPreview == program = "preview"

TypeOK ==
  /\ program \in Programs
  /\ mpc \in {"create", "link", "watch", "play", "loop", "unwatch", "stop",
              "stopping", "free", "exited", "killed"}
  /\ exitCode \in {-1, 0, 1}
  /\ watching \in BOOLEAN /\ interrupt \in BOOLEAN
  /\ bus \subseteq {"ERROR", "EOS"}
  /\ pipeline \in {"NULL", "PLAYING", "stopping"}
  /\ camera \in {"idle", "pushDetect", "pushPreview", "ended"}
  /\ detectQueue \in 0 .. QueueSize /\ previewQueue \in 0 .. QueueSize
  /\ detector \in {"idle", "scan", "setFound", "setX", "setY", "unlock"}
  /\ frame \in Frames \cup {{}} /\ published \in Frames \cup {{}}
  /\ painter \in {"idle", "lock", "readFound", "readX", "readY", "unlock", "draw"}
  /\ lock \in {"none", "free", "detector", "painter"}
  /\ found \in BOOLEAN /\ sawFound \in BOOLEAN
  /\ x \in Nat /\ y \in Nat /\ sawX \in Nat /\ sawY \in Nat

Init ==
  /\ program \in Programs
  /\ mpc = "create" /\ exitCode = 0 /\ watching = FALSE
  /\ interrupt = FALSE /\ bus = {} /\ pipeline = "NULL"
  /\ camera = "idle" /\ detectQueue = 0 /\ previewQueue = 0
  /\ detector = "idle" /\ frame = {} /\ painter = "idle"
  /\ lock = IF program = "preview" THEN "free" ELSE "none"
  /\ found = FALSE /\ x = 0 /\ y = 0 /\ published = {}
  /\ sawFound = FALSE /\ sawX = 0 /\ sawY = 0

(***************************************************************************)
(* main                                                                    *)
(***************************************************************************)
MainGoes(label) ==
  mpc' = label /\ UNCHANGED <<program, exitCode, watching, interrupt>>

MainFails(label, code) ==
  mpc' = label /\ exitCode' = code /\ UNCHANGED <<program, watching, interrupt>>

\* The elements exist, or not: a plugin may be missing.
Create ==
  /\ mpc = "create"
  /\ \/ MainGoes("link")
     \/ IF HasLoop THEN MainFails("free", 1) ELSE MainFails("exited", -1)
  /\ UNCHANGED <<bus, pipeline, threadVars>>

Link ==
  /\ mpc = "link"
  /\ \/ MainGoes(IF HasLoop THEN "watch" ELSE "play")
     \/ IF HasLoop THEN MainFails("stop", 1) ELSE MainFails("exited", -1)
  /\ UNCHANGED <<bus, pipeline, threadVars>>

\* The watch on the bus and then the one on SIGINT.
Watch ==
  /\ mpc = "watch" /\ mpc' = "play"
  /\ watching' = TRUE
  /\ UNCHANGED <<program, exitCode, interrupt, bus, pipeline, threadVars>>

\* A start that fails posts an ERROR too.  appsink_pipeline does not look at
\* the result and finds that message.
Play ==
  /\ mpc = "play"
  /\ \/ /\ pipeline' = "PLAYING" /\ bus' = bus
        /\ MainGoes("loop")
     \/ /\ bus' = bus \cup {"ERROR"} /\ pipeline' = pipeline
        /\ IF HasLoop
           THEN /\ mpc' = "stop" /\ exitCode' = 1 /\ watching' = FALSE
                /\ UNCHANGED <<program, interrupt>>
           ELSE MainGoes("loop")
  /\ UNCHANGED threadVars

\* Mutant of OnBusMessage: an error is printed and nothing more.
OnBusMessagePrints ==
  /\ mpc = "loop" /\ HasLoop
  /\ \E kind \in bus :
       /\ bus' = bus \ {kind}
       /\ MainGoes(IF kind = "ERROR" THEN "loop" ELSE "unwatch")
  /\ UNCHANGED <<pipeline, threadVars>>

\* on_bus_message quits the loop.
OnBusMessage ==
  /\ mpc = "loop" /\ HasLoop
  /\ \E kind \in bus : bus' = bus \ {kind}
  /\ MainGoes("unwatch")
  /\ UNCHANGED <<pipeline, threadVars>>

\* gst_bus_timed_pop_filtered of appsink_pipeline, which waits without a limit.
AwaitBus ==
  /\ mpc = "loop" /\ ~HasLoop
  /\ \E kind \in bus : bus' = bus \ {kind}
  /\ MainGoes("stop")
  /\ UNCHANGED <<pipeline, threadVars>>

\* The loop dispatches a SIGINT that came since it was watched for.
OnSigint ==
  /\ mpc = "loop" /\ HasLoop /\ interrupt
  /\ mpc' = "unwatch" /\ interrupt' = FALSE
  /\ UNCHANGED <<program, exitCode, watching, bus, pipeline, threadVars>>

\* Mutant of Unwatch: the pipeline is not stopped before the lock is cleared.
UnwatchAndFree ==
  /\ mpc = "unwatch" /\ mpc' = "free"
  /\ watching' = FALSE
  /\ UNCHANGED <<program, exitCode, interrupt, bus, pipeline, threadVars>>

Unwatch ==
  /\ mpc = "unwatch" /\ mpc' = "stop"
  /\ watching' = FALSE
  /\ UNCHANGED <<program, exitCode, interrupt, bus, pipeline, threadVars>>

\* set_state(NULL) wakes threads that wait at a queue and waits until the
\* streaming threads have left their callbacks.
StopBegins ==
  /\ mpc = "stop"
  /\ MainGoes("stopping")
  /\ pipeline' = "stopping"
  /\ UNCHANGED <<bus, threadVars>>

StopEnds ==
  /\ mpc = "stopping" /\ camera \in {"idle", "ended"}
  /\ detector = "idle" /\ painter = "idle"
  /\ MainGoes(IF HasLoop THEN "free" ELSE "exited")
  /\ pipeline' = "NULL" /\ bus' = {}
  /\ UNCHANGED threadVars

\* g_mutex_clear and the end of main.
Free ==
  /\ mpc = "free"
  /\ MainGoes("exited")
  /\ lock' = "none"
  /\ UNCHANGED <<bus, pipeline, queueVars, detector, frame, painter, dataVars, sawVars>>

\* SIGINT is kept for the loop while it is watched for; before and after, and
\* in appsink_pipeline, it ends the process.
Sigint ==
  /\ mpc \notin {"exited", "killed"} /\ ~interrupt
  /\ IF watching THEN interrupt' = TRUE /\ mpc' = mpc
     ELSE interrupt' = interrupt /\ mpc' = "killed"
  /\ UNCHANGED <<program, exitCode, watching, bus, pipeline, threadVars>>

(***************************************************************************)
(* The streaming threads                                                   *)
(***************************************************************************)
Running == pipeline = "PLAYING" /\ mpc # "killed"
Alive == pipeline # "NULL" /\ mpc # "killed"

\* The camera gives a frame, an error, or its last frame is over.
CameraFrame ==
  /\ Running /\ camera = "idle"
  /\ \/ camera' = "pushDetect" /\ bus' = bus
     \/ camera' = "ended" /\ \E kind \in {"ERROR", "EOS"} : bus' = bus \cup {kind}
  /\ UNCHANGED <<mainVars, interrupt, pipeline, detectQueue, previewQueue,
                 detector, frame, painter, lock, dataVars, sawVars>>

\* tee pushes to one queue after the other, so a full one holds up both
\* branches; a stop lets it go.  Without queues the camera's own thread goes on
\* to on_new_sample.
Tee ==
  /\ Alive /\ camera \in {"pushDetect", "pushPreview"}
  /\ \/ /\ pipeline = "stopping" /\ camera' = "idle"
        /\ UNCHANGED <<detectQueue, previewQueue>>
     \/ /\ camera = "pushDetect" /\ detectQueue < QueueSize
        /\ detectQueue' = detectQueue + 1 /\ UNCHANGED previewQueue
        /\ camera' = IF HasPreview THEN "pushPreview" ELSE "idle"
     \/ /\ camera = "pushPreview" /\ previewQueue < QueueSize
        /\ previewQueue' = previewQueue + 1 /\ UNCHANGED detectQueue
        /\ camera' = "idle"
  /\ UNCHANGED <<mainVars, interrupt, bus, pipeline, detector, frame, painter,
                 lock, dataVars, sawVars>>

\* on_new_sample is called.
SampleArrives ==
  /\ Running /\ detector = "idle" /\ detectQueue > 0
  /\ detector' = "scan" /\ detectQueue' = detectQueue - 1
  /\ frame' \in Frames
  /\ UNCHANGED <<mainVars, interrupt, bus, pipeline, camera, previewQueue,
                 painter, lock, dataVars, sawVars>>

\* No sample, buffer or caps, another format, a buffer that is too small or
\* cannot be mapped: GST_FLOW_ERROR, which ends the stream with an ERROR.
\* appsink_pipeline fails only without sample, buffer or caps.
SampleFails ==
  /\ Alive /\ detector = "scan" /\ detector' = "idle"
  /\ bus' = bus \cup {"ERROR"}
  /\ camera' = "ended"
  /\ UNCHANGED <<mainVars, interrupt, pipeline, detectQueue, previewQueue,
                 frame, painter, lock, dataVars, sawVars>>

\* What the scan of the pixels finds: enough of them, and their mean place.
Green(f) == Cardinality(f) >= MinGreen
MeanX(f) == FoldSet(LAMBDA p, sum : p[1] + sum, 0, f) \div Cardinality(f)
MeanY(f) == FoldSet(LAMBDA p, sum : p[2] + sum, 0, f) \div Cardinality(f)

\* on_new_sample of green_ball_rpi_headless prints what it found,
SamplePrinted ==
  /\ Alive /\ program = "headless" /\ detector = "scan" /\ detector' = "idle"
  /\ UNCHANGED <<mainVars, interrupt, bus, pipeline, queueVars, frame, painter,
                 lock, dataVars, sawVars>>

\* that of appsink_pipeline the brightness, or that it has no frame to measure.
SampleMeasured ==
  /\ Alive /\ program = "appsink" /\ detector = "scan" /\ detector' = "idle"
  /\ UNCHANGED <<mainVars, interrupt, bus, pipeline, queueVars, frame, painter,
                 lock, dataVars, sawVars>>

SampleLocks ==
  /\ Alive /\ HasPreview /\ detector = "scan" /\ lock = "free"
  /\ detector' = "setFound" /\ lock' = "detector"
  /\ UNCHANGED <<mainVars, interrupt, bus, pipeline, queueVars, frame, painter,
                 dataVars, sawVars>>

\* object_found, and object_x and object_y only when there is an object.
SampleStores ==
  /\ Alive
  /\ \/ /\ detector = "setFound"
        /\ found' = Green(frame) /\ published' = frame
        /\ detector' = IF Green(frame) THEN "setX" ELSE "unlock"
        /\ UNCHANGED <<x, y>>
     \/ /\ detector = "setX" /\ detector' = "setY"
        /\ x' = MeanX(frame) /\ UNCHANGED <<found, y, published>>
     \/ /\ detector = "setY" /\ detector' = "unlock"
        /\ y' = MeanY(frame) /\ UNCHANGED <<found, x, published>>
  /\ UNCHANGED <<mainVars, interrupt, bus, pipeline, queueVars, frame, painter,
                 lock, sawVars>>

SampleUnlocks ==
  /\ Alive /\ detector = "unlock" /\ detector' = "idle"
  /\ lock' = "free"
  /\ UNCHANGED <<mainVars, interrupt, bus, pipeline, queueVars, frame, painter,
                 dataVars, sawVars>>

\* The preview's thread calls on_draw_overlay for its next frame.
DrawArrives ==
  /\ Running /\ painter = "idle" /\ previewQueue > 0
  /\ painter' = "lock" /\ previewQueue' = previewQueue - 1
  /\ UNCHANGED <<mainVars, interrupt, bus, pipeline, camera, detectQueue,
                 detector, frame, lock, dataVars, sawVars>>

\* Mutant of DrawLocks: on_draw_overlay does not take the lock.
DrawLocksNot ==
  /\ Alive /\ painter = "lock"
  /\ painter' = "readFound" /\ lock' = lock
  /\ UNCHANGED <<mainVars, interrupt, bus, pipeline, queueVars, detector, frame,
                 dataVars, sawVars>>

DrawLocks ==
  /\ Alive /\ painter = "lock" /\ lock = "free"
  /\ painter' = "readFound" /\ lock' = "painter"
  /\ UNCHANGED <<mainVars, interrupt, bus, pipeline, queueVars, detector, frame,
                 dataVars, sawVars>>

DrawReads ==
  /\ Alive
  /\ \/ /\ painter = "readFound" /\ painter' = "readX"
        /\ sawFound' = found /\ UNCHANGED <<sawX, sawY>>
     \/ /\ painter = "readX" /\ painter' = "readY"
        /\ sawX' = x /\ UNCHANGED <<sawFound, sawY>>
     \/ /\ painter = "readY" /\ painter' = "unlock"
        /\ sawY' = y /\ UNCHANGED <<sawFound, sawX>>
  /\ UNCHANGED <<mainVars, interrupt, bus, pipeline, queueVars, detector, frame,
                 lock, dataVars>>

DrawUnlocks ==
  /\ Alive /\ painter = "unlock" /\ painter' = "draw"
  /\ lock' = "free"
  /\ UNCHANGED <<mainVars, interrupt, bus, pipeline, queueVars, detector, frame,
                 dataVars, sawVars>>

\* The dot, if there is one; then the frame goes to the screen.
Draw ==
  /\ Alive /\ painter = "draw" /\ painter' = "idle"
  /\ UNCHANGED <<mainVars, interrupt, bus, pipeline, queueVars, detector, frame,
                 lock, dataVars, sawVars>>

MainStep ==
  \/ Create \/ Link \/ Watch \/ Play \/ OnBusMessage \/ AwaitBus \/ OnSigint \/ Unwatch
  \/ StopBegins \/ StopEnds \/ Free
SampleStep ==
  \/ SampleFails \/ SamplePrinted \/ SampleMeasured
  \/ SampleLocks \/ SampleStores \/ SampleUnlocks
DrawStep == DrawLocks \/ DrawReads \/ DrawUnlocks \/ Draw
StreamStep ==
  CameraFrame \/ Tee \/ SampleArrives \/ DrawArrives \/ SampleStep \/ DrawStep

Ended == mpc \in {"exited", "killed"} /\ UNCHANGED vars

Next == (mpc # "killed" /\ MainStep) \/ Sigint \/ StreamStep \/ Ended

(***************************************************************************)
(* Fairness: threads are scheduled and callbacks return.  Nothing makes    *)
(* the camera or the screen go on, nor a user press Ctrl-C.                *)
(***************************************************************************)
Spec ==
  /\ Init /\ [][Next]_vars
  /\ WF_vars(MainStep) /\ WF_vars(Tee)
  /\ WF_vars(SampleStep) /\ WF_vars(DrawStep)

(***************************************************************************)
(* Properties                                                              *)
(***************************************************************************)
\* What on_draw_overlay has read when it unlocks is the result of one frame:
\* no dot at an old place for a new object, or with the x of one and the y of
\* another frame.
DotIsOfOneFrame ==
  painter = "unlock" =>
    /\ sawFound = Green(published)
    /\ sawFound => sawX = MeanX(published) /\ sawY = MeanY(published)

\* No callback is about to take, or holds, the lock on main's stack when main
\* clears it, however the run ended.
LockOutlivesCallbacks ==
  HasPreview /\ lock = "none" => detector = "idle" /\ painter = "idle"

\* An error or the end of the stream ends the run, as a SIGINT does that came
\* after it was watched for, at once or before the loop runs, with any queue
\* full and any callback under way.
EndsWhenAsked ==
  interrupt \/ (bus # {} /\ mpc = "loop") ~> mpc \in {"exited", "killed"}
=============================================================================
