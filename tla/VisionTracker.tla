--------------------------- MODULE VisionTracker ---------------------------
(***************************************************************************)
(* The camera tracker's life: vision_tracker_start and vision_tracker_stop *)
(* in the caller's thread, the camera thread that builds the pipeline and  *)
(* runs a GLib main loop, and GStreamer's streaming thread that calls      *)
(* on_new_sample.  What a frame contains is left to other modules.         *)
(***************************************************************************)
EXTENDS Naturals

CONSTANT MaxFrames \* bound on the number of camera frames (not in the code)

ASSUME FramesAssumption == MaxFrames \in Nat

VARIABLES
  caller,      \* where vision_tracker_start or vision_tracker_stop is: "hung" in
               \* vision_stream_stop, "killed" by a use of freed memory
  camera,      \* where the camera thread is
  startDone,   \* start_done
  startResult, \* start_result: 0, or the name of an errno
  loopField,   \* tracker->loop: is it set?
  mainLoop,    \* the GMainLoop itself
  pipeline,    \* what the pipeline has reached
  callback,    \* the streaming thread: is it inside on_new_sample?
  busMessage,  \* an ERROR or EOS message waits on the bus
  stream,      \* is the debug stream running (between its start and stop)?
  frames,      \* frame_count of VisionPipelineData
  cameraEnded, \* observer: the camera failed or reached EOS on its own
  freedUsed    \* observer: g_main_loop_quit was called on a freed loop

startVars == <<startDone, startResult>>
loopVars == <<loopField, mainLoop>>
pipeVars == <<pipeline, callback, busMessage, frames, cameraEnded>>
vars == <<caller, camera, startVars, loopVars, pipeVars, stream, freedUsed>>

TypeOK ==
  /\ caller \in {"init", "create", "wait", "joinFailed", "discard", "failed",
                 "started", "stop", "quit", "join", "stopStream", "stopped",
                 "hung", "killed"}
  /\ camera \in {"none", "build", "play", "ready", "free", "clear", "publish",
                 "run", "loop", "teardown", "ending", "exit"}
  /\ startDone \in BOOLEAN
  /\ startResult \in {"0", "ENODEV", "EINVAL", "EIO"}
  /\ loopField \in BOOLEAN
  /\ mainLoop \in {"none", "idle", "running", "freed"}
  /\ pipeline \in {"none", "starting", "playing", "failing", "failed", "down"}
  /\ callback \in {"idle", "processing", "ended"}
  /\ busMessage \in BOOLEAN
  /\ stream \in BOOLEAN
  /\ frames \in 0 .. MaxFrames
  /\ cameraEnded \in BOOLEAN
  /\ freedUsed \in BOOLEAN

\* vision_tracker_init
Init ==
  /\ caller = "init" /\ camera = "none"
  /\ startDone = FALSE /\ startResult = "0"
  /\ loopField = FALSE /\ mainLoop = "none"
  /\ pipeline = "none" /\ callback = "idle" /\ busMessage = FALSE
  /\ stream = FALSE /\ frames = 0
  /\ cameraEnded = FALSE /\ freedUsed = FALSE

(***************************************************************************)
(* GLib: g_main_loop_run sets the running flag that g_main_loop_quit       *)
(* clears, so a quit that comes before run has no effect.                  *)
(***************************************************************************)
QuitLoop == mainLoop' = IF mainLoop = "running" THEN "idle" ELSE mainLoop

(***************************************************************************)
(* The caller                                                              *)
(***************************************************************************)
\* vision_stream_start, with the stream enabled as jiwy_config.h has it.
StartStream ==
  /\ caller = "init"
  /\ \/ caller' = "create" /\ stream' = TRUE
     \/ caller' = "failed" /\ stream' = stream
  /\ UNCHANGED <<camera, startVars, loopVars, pipeVars, freedUsed>>

CreateThread ==
  /\ caller = "create"
  /\ \/ caller' = "wait" /\ camera' = "build"
     \/ caller' = "discard" /\ camera' = camera
  /\ UNCHANGED <<startVars, loopVars, pipeVars, stream, freedUsed>>

\* The wait on state_cond, under state_lock.
AwaitStart ==
  /\ caller = "wait" /\ startDone
  /\ caller' = IF startResult = "0" THEN "started" ELSE "joinFailed"
  /\ UNCHANGED <<camera, startVars, loopVars, pipeVars, stream, freedUsed>>

\* Mutant of JoinFailed: the thread is not joined.
JoinFailedMissing ==
  /\ caller = "joinFailed" /\ caller' = "discard"
  /\ UNCHANGED <<camera, startVars, loopVars, pipeVars, stream, freedUsed>>

JoinFailed ==
  /\ caller = "joinFailed" /\ camera = "exit"
  /\ caller' = "discard"
  /\ UNCHANGED <<camera, startVars, loopVars, pipeVars, stream, freedUsed>>

\* vision_stream_stop after a failed start.
DiscardStream ==
  /\ caller = "discard" /\ caller' = "failed"
  /\ stream' = FALSE
  /\ UNCHANGED <<camera, startVars, loopVars, pipeVars, freedUsed>>

\* vision_tracker_stop is called ...
StopBegins ==
  /\ caller = "started"
  /\ caller' = "stop"
  /\ UNCHANGED <<camera, startVars, loopVars, pipeVars, stream, freedUsed>>

\* Mutant of StopTestsLoop: the test is inverted.
StopTestsNoLoop ==
  /\ caller = "stop"
  /\ caller' = IF loopField THEN "join" ELSE "quit"
  /\ UNCHANGED <<camera, startVars, loopVars, pipeVars, stream, freedUsed>>

\* ... tests tracker->loop, without a lock ...
StopTestsLoop ==
  /\ caller = "stop"
  /\ caller' = IF loopField THEN "quit" ELSE "join"
  /\ UNCHANGED <<camera, startVars, loopVars, pipeVars, stream, freedUsed>>

\* ... and uses it.  A quit on a freed loop may do anything: here it has no
\* effect or kills the process.
StopQuits ==
  /\ caller = "quit"
  /\ caller' = "join" \/ (mainLoop = "freed" /\ caller' = "killed")
  /\ QuitLoop
  /\ freedUsed' = (freedUsed \/ mainLoop = "freed")
  /\ UNCHANGED <<camera, startVars, loopField, pipeVars, stream>>

\* Mutant of StopJoins: the stream is stopped without waiting for the thread.
StopJoinsNobody ==
  /\ caller = "join" /\ caller' = "stopStream"
  /\ UNCHANGED <<camera, startVars, loopVars, pipeVars, stream, freedUsed>>

StopJoins ==
  /\ caller = "join" /\ camera = "exit"
  /\ caller' = "stopStream"
  /\ UNCHANGED <<camera, startVars, loopVars, pipeVars, stream, freedUsed>>

\* vision_stream_stop at the end of vision_tracker_stop.
StopStream ==
  /\ caller = "stopStream" /\ caller' = "stopped"
  /\ stream' = FALSE
  /\ UNCHANGED <<camera, startVars, loopVars, pipeVars, freedUsed>>

\* Either call of vision_stream_stop may never return: its join waits for a
\* server that missed the broadcast (StreamStopReturns of VisionStream fails).
StreamHangs ==
  /\ caller \in {"discard", "stopStream"} /\ caller' = "hung"
  /\ UNCHANGED <<camera, startVars, loopVars, pipeVars, stream, freedUsed>>

(***************************************************************************)
(* The camera thread: vision_thread_main_v4l2 and run_pipeline_until_quit  *)
(***************************************************************************)
\* publish_start_result
Publish(result) == startDone' = TRUE /\ startResult' = result

Build ==
  /\ camera = "build"
  /\ \/ /\ camera' = "play"
        /\ loopField' = TRUE /\ mainLoop' = "idle"
        /\ UNCHANGED startVars
     \/ /\ camera' = "ending"
        /\ \E errno \in {"ENODEV", "EINVAL"} : Publish(errno)
        /\ UNCHANGED loopVars
  /\ UNCHANGED <<caller, pipeVars, stream, freedUsed>>

\* Mutant of Play: success is reported before the pipeline is ready.
PlayPublishesEarly ==
  /\ camera = "play"
  /\ \/ camera' = "ready" /\ pipeline' = "starting" /\ Publish("0")
     \/ camera' = "free" /\ pipeline' = "failed" /\ UNCHANGED startVars
  /\ UNCHANGED <<caller, loopVars, callback, busMessage, frames, cameraEnded,
                 stream, freedUsed>>

\* gst_element_set_state(pipeline, GST_STATE_PLAYING)
Play ==
  /\ camera = "play"
  /\ \/ camera' = "ready" /\ pipeline' = "starting"
     \/ camera' = "free" /\ pipeline' = "failed"
  /\ UNCHANGED <<caller, startVars, loopVars, callback, busMessage, frames,
                 cameraEnded, stream, freedUsed>>

\* gst_element_get_state with the ready timeout: success, failure, or still
\* starting when the time is up, which is not a failure to the test.
Ready ==
  /\ camera = "ready"
  /\ \/ camera' = "publish" /\ pipeline' \in {"playing", "starting"}
     \/ camera' = "teardown" /\ pipeline' = "failing"
  /\ UNCHANGED <<caller, startVars, loopVars, callback, busMessage, frames,
                 cameraEnded, stream, freedUsed>>

PublishReady ==
  /\ camera = "publish" /\ camera' = "run"
  /\ Publish("0")
  /\ UNCHANGED <<caller, loopVars, pipeVars, stream, freedUsed>>

\* g_main_loop_run, up to its first test of the running flag ...
RunLoop ==
  /\ camera = "run" /\ camera' = "loop"
  /\ mainLoop' = "running"
  /\ UNCHANGED <<caller, startVars, loopField, pipeVars, stream, freedUsed>>

\* Mutant of OnBusMessage: an error is printed and the loop goes on.
OnBusMessagePrints ==
  /\ camera = "loop" /\ mainLoop = "running" /\ busMessage
  /\ busMessage' = FALSE
  /\ UNCHANGED <<caller, camera, startVars, loopVars, pipeline, callback, frames,
                 cameraEnded, stream, freedUsed>>

\* ... the bus watch it dispatches ...
OnBusMessage ==
  /\ camera = "loop" /\ mainLoop = "running" /\ busMessage
  /\ busMessage' = FALSE
  /\ QuitLoop
  /\ UNCHANGED <<caller, camera, startVars, loopField, pipeline, callback, frames,
                 cameraEnded, stream, freedUsed>>

\* ... and its return.
LoopReturns ==
  /\ camera = "loop" /\ mainLoop = "idle"
  /\ camera' = "teardown"
  /\ UNCHANGED <<caller, startVars, loopVars, pipeVars, stream, freedUsed>>

\* Mutant of Teardown: the pipeline is dropped while it may be streaming.
TeardownNoWait ==
  /\ camera = "teardown" /\ camera' = "free"
  /\ UNCHANGED <<caller, startVars, loopVars, pipeVars, stream, freedUsed>>

\* gst_element_set_state(pipeline, GST_STATE_NULL) waits for the streaming
\* thread to leave on_new_sample.
Teardown ==
  /\ camera = "teardown" /\ callback # "processing"
  /\ camera' = "free"
  /\ pipeline' = IF pipeline = "failing" THEN "failed" ELSE "down"
  /\ UNCHANGED <<caller, startVars, loopVars, callback, busMessage, frames,
                 cameraEnded, stream, freedUsed>>

\* g_main_loop_unref ...
FreeLoop ==
  /\ camera = "free" /\ camera' = "clear"
  /\ mainLoop' = "freed"
  /\ UNCHANGED <<caller, startVars, loopField, pipeVars, stream, freedUsed>>

\* Mutant of ClearLoop: the failed start is not reported to the caller.
ClearLoopSilently ==
  /\ camera = "clear" /\ camera' = "ending"
  /\ loopField' = FALSE
  /\ UNCHANGED <<caller, startVars, mainLoop, pipeVars, stream, freedUsed>>

\* ... tracker->loop = NULL, and a failed start is reported only now.
ClearLoop ==
  /\ camera = "clear" /\ camera' = "ending"
  /\ loopField' = FALSE
  /\ IF pipeline = "failed" THEN Publish("EIO") ELSE UNCHANGED startVars
  /\ UNCHANGED <<caller, mainLoop, pipeVars, stream, freedUsed>>

\* The thread releases the blob tracker's buffers and returns.
ThreadReturns ==
  /\ camera = "ending" /\ camera' = "exit"
  /\ UNCHANGED <<caller, startVars, loopVars, pipeVars, stream, freedUsed>>

(***************************************************************************)
(* The streaming thread, while the pipeline is up                          *)
(***************************************************************************)
Streaming == pipeline \in {"starting", "playing", "failing"}

FrameArrives ==
  /\ Streaming /\ callback = "idle" /\ frames < MaxFrames
  /\ callback' = "processing"
  /\ UNCHANGED <<caller, camera, startVars, loopVars, pipeline, busMessage, frames,
                 cameraEnded, stream, freedUsed>>

\* update_snapshot, and the publication to the stream.
FramePublished ==
  /\ callback = "processing"
  /\ callback' = "idle" /\ frames' = frames + 1
  /\ UNCHANGED <<caller, camera, startVars, loopVars, pipeline, busMessage,
                 cameraEnded, stream, freedUsed>>

\* on_new_sample returns GST_FLOW_ERROR, which GStreamer turns into an ERROR.
FrameFails ==
  /\ callback = "processing"
  /\ callback' = "ended" /\ busMessage' = TRUE /\ cameraEnded' = TRUE
  /\ UNCHANGED <<caller, camera, startVars, loopVars, pipeline, frames, stream,
                 freedUsed>>

\* The camera is unplugged or ends its stream between two frames.
CameraFails ==
  /\ Streaming /\ callback = "idle"
  /\ callback' = "ended" /\ busMessage' = TRUE /\ cameraEnded' = TRUE
  /\ UNCHANGED <<caller, camera, startVars, loopVars, pipeline, frames, stream,
                 freedUsed>>

\* No thread outlives the process.
Alive == caller # "killed"

CallerStep ==
  \/ StartStream \/ CreateThread \/ AwaitStart \/ JoinFailed \/ DiscardStream
  \/ StopTestsLoop \/ StopQuits \/ StopJoins \/ StopStream \/ StreamHangs
CameraStep ==
  /\ Alive
  /\ \/ Build \/ Play \/ Ready \/ PublishReady \/ RunLoop \/ OnBusMessage
     \/ LoopReturns \/ Teardown \/ FreeLoop \/ ClearLoop \/ ThreadReturns
FrameStep == Alive /\ (FramePublished \/ FrameFails)

Finished ==
  caller \in {"failed", "stopped", "hung", "killed"} /\ UNCHANGED vars

Next ==
  \/ CallerStep \/ StopBegins \/ CameraStep \/ FrameStep
  \/ (Alive /\ (FrameArrives \/ CameraFails)) \/ Finished

(***************************************************************************)
(* Both threads are scheduled, and processing a frame takes finite time.   *)
(* Frames, failures of the camera and the call of vision_tracker_stop are  *)
(* not promised.                                                           *)
(***************************************************************************)
Spec ==
  /\ Init /\ [][Next]_vars
  /\ WF_vars(CallerStep) /\ WF_vars(CameraStep) /\ WF_vars(FrameStep)

\* on_new_sample works on a VisionPipelineData that lives on the camera
\* thread's stack: it never runs before that thread built its pipeline or once
\* it released it, whichever of stop, error and failed start ended it.
CallbackHasItsData ==
  callback = "processing" =>
    camera \in {"ready", "publish", "run", "loop", "teardown"}

\* vision_tracker_stop frees the stream's frame: no frame can still be on its
\* way to a stream that was stopped.
StreamOutlivesFrames == callback = "processing" => stream

\* vision_tracker_start that fails leaves nothing behind: no thread, no stream
\* and no loop.
FailedStartLeavesNothing ==
  caller = "failed" => camera \in {"none", "exit"} /\ ~stream /\ ~loopField

\* vision_tracker_stop reads tracker->loop without a lock while the camera
\* thread may be releasing it; only a camera that ended on its own can make it
\* use a freed loop.
FreedOnlyAfterCameraEnded == freedUsed => cameraEnded

\* vision_tracker_start returns, whatever fails on the way, unless it hangs in
\* vision_stream_stop, the last thing a failing start does: the result is always
\* published, and a camera thread whose start failed always ends.
StartReturns == caller = "wait" ~> caller \in {"started", "failed", "hung"}

\* An error or the end of the stream ends the camera thread, even if it was
\* posted before the main loop ran, unless the process dies of a freed loop.
CameraEndEndsThread == cameraEnded ~> camera = "exit" \/ caller = "killed"

\* A vision_tracker_stop that is called while the main loop runs gets through its
\* quit and its join, and returns unless it hangs in vision_stream_stop, its last
\* call.  Nothing is claimed of a stop that used a freed loop.
StopReturnsOnceLooping ==
  caller = "stop" /\ mainLoop = "running"
    ~> caller \in {"stopped", "hung"} \/ freedUsed

\* vision_tracker.h says of vision_tracker_stop "Stop the camera thread and release
\* GStreamer resources": the thread ends.
StopEndsCamera == caller = "stop" ~> camera = "exit" \/ caller = "killed"
=============================================================================
