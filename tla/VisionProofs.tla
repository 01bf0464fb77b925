---------------------------- MODULE VisionProofs ----------------------------
(***************************************************************************)
(* The safety of the camera tracker's threads and of the debug stream they *)
(* feed, for any number of frames and clients.                             *)
(***************************************************************************)
EXTENDS VisionTracker, VisionStream, TLAPS

(***************************************************************************)
(* The tracker: where caller and camera thread can be together, and what   *)
(* the camera thread has built at each place.                              *)
(***************************************************************************)
HoldsLoop == {"play", "ready", "publish", "run", "loop", "teardown", "free", "clear"}

Threads ==
  /\ camera = "none" => caller \in {"init", "create", "discard", "failed", "hung"}
  /\ caller \in {"init", "create"} => camera = "none"
  /\ caller \in {"discard", "failed", "stopStream", "stopped", "hung"}
       => camera \in {"none", "exit"}
  /\ stream <=> caller \notin {"init", "failed", "stopped"}

Pipeline ==
  /\ Streaming => camera \in {"ready", "publish", "run", "loop", "teardown"}
  /\ callback = "processing" => Streaming /\ frames < MaxFrames
  /\ loopField => camera \in HoldsLoop
  /\ camera \in {"none", "build"} => mainLoop = "none" /\ pipeline = "none"
  /\ camera \in {"play", "ready", "publish", "run"} => mainLoop = "idle"
  /\ camera \in {"publish", "run", "loop"} => pipeline \in {"starting", "playing"}
  /\ mainLoop = "running" => camera = "loop"
  /\ mainLoop = "freed" => camera \in {"clear", "ending", "exit"}
  /\ busMessage => cameraEnded

\* The result of the start is published once.
Started ==
  /\ camera \in {"none", "build", "play", "ready", "publish"} => ~startDone
  /\ pipeline \in {"failing", "failed"} /\ camera \in HoldsLoop => ~startDone
  /\ caller \in {"started", "stop", "quit", "join"} => startDone /\ startResult = "0"

\* Until a stop has quit the loop, a camera thread that has started leaves the
\* loop only if the camera ended.
LoopRuns ==
  /\ /\ startDone /\ startResult = "0" /\ ~cameraEnded
     /\ caller \in {"wait", "started", "stop", "quit"}
     => camera = "run" \/ (camera = "loop" /\ mainLoop = "running")
  /\ FreedOnlyAfterCameraEnded

TrackerInv == TypeOK /\ Threads /\ Pipeline /\ Started /\ LoopRuns

LEMMA TrackerInit == Init => TrackerInv
<1>1. Init => TypeOK
  <2>1. Init => frames \in 0 .. MaxFrames
    BY FramesAssumption DEF Init
  <2> QED
    BY <2>1, Zenon DEF Init, TypeOK
<1>2. Init => Threads /\ Pipeline /\ Started /\ LoopRuns
  BY DEF Init, Threads, Pipeline, Started, LoopRuns, Streaming,
         FreedOnlyAfterCameraEnded
<1> QED
  BY <1>1, <1>2 DEF TrackerInv

LEMMA CallerKeeps ==
  ASSUME TrackerInv, CallerStep \/ StopBegins
  PROVE  TrackerInv'
<1> USE DEF TrackerInv, TypeOK, Threads, Pipeline, Started, LoopRuns, Streaming,
        FreedOnlyAfterCameraEnded, HoldsLoop, startVars, loopVars, pipeVars
<1>1. CASE StartStream
  <2>1. TypeOK'
    BY <1>1 DEF StartStream
  <2>2. Threads'
    BY <1>1 DEF StartStream
  <2>3. Pipeline' /\ Started' /\ LoopRuns'
    BY <1>1 DEF StartStream
  <2> QED
    BY <2>1, <2>2, <2>3
<1>2. CASE CreateThread
  BY <1>2 DEF CreateThread
<1>3. CASE AwaitStart
  BY <1>3 DEF AwaitStart
<1>4. CASE JoinFailed
  BY <1>4 DEF JoinFailed
<1>5. CASE DiscardStream
  BY <1>5 DEF DiscardStream
<1>6. CASE StopBegins
  BY <1>6 DEF StopBegins
<1>7. CASE StopTestsLoop
  BY <1>7 DEF StopTestsLoop
<1>8. CASE StopQuits
  BY <1>8 DEF StopQuits, QuitLoop
<1>9. CASE StopJoins
  BY <1>9 DEF StopJoins
<1>10. CASE StopStream
  BY <1>10 DEF StopStream
<1>11. CASE StreamHangs
  BY <1>11 DEF StreamHangs
<1> QED
  BY <1>1, <1>2, <1>3, <1>4, <1>5, <1>6, <1>7, <1>8, <1>9, <1>10, <1>11
  DEF CallerStep

LEMMA CameraKeeps ==
  ASSUME TrackerInv, CameraStep
  PROVE  TrackerInv'
<1> USE DEF TrackerInv, TypeOK, Threads, Pipeline, Started, LoopRuns, Streaming,
        FreedOnlyAfterCameraEnded, HoldsLoop, startVars, loopVars, pipeVars
<1>1. CASE Build
  <2>1. TypeOK'
    BY <1>1 DEF Build, Publish
  <2>2. Threads'
    BY <1>1 DEF Build, Publish
  <2>3. Pipeline' /\ Started' /\ LoopRuns'
    BY <1>1 DEF Build, Publish
  <2> QED
    BY <2>1, <2>2, <2>3
<1>2. CASE Play
  BY <1>2 DEF Play
<1>3. CASE Ready
  BY <1>3 DEF Ready
<1>4. CASE PublishReady
  <2>1. TypeOK'
    BY <1>4 DEF PublishReady, Publish
  <2>2. Threads'
    BY <1>4 DEF PublishReady, Publish
  <2>3. Pipeline' /\ Started' /\ LoopRuns'
    BY <1>4 DEF PublishReady, Publish
  <2> QED
    BY <2>1, <2>2, <2>3
<1>5. CASE RunLoop
  BY <1>5 DEF RunLoop
<1>6. CASE OnBusMessage
  BY <1>6 DEF OnBusMessage, QuitLoop
<1>7. CASE LoopReturns
  BY <1>7 DEF LoopReturns
<1>8. CASE Teardown
  BY <1>8 DEF Teardown
<1>9. CASE FreeLoop
  BY <1>9 DEF FreeLoop
<1>10. CASE ClearLoop
  <2>1. TypeOK'
    BY <1>10 DEF ClearLoop, Publish
  <2>2. Threads'
    BY <1>10 DEF ClearLoop, Publish
  <2>3. Pipeline' /\ Started' /\ LoopRuns'
    BY <1>10 DEF ClearLoop, Publish
  <2> QED
    BY <2>1, <2>2, <2>3
<1>11. CASE ThreadReturns
  BY <1>11 DEF ThreadReturns
<1> QED
  BY <1>1, <1>2, <1>3, <1>4, <1>5, <1>6, <1>7, <1>8, <1>9, <1>10, <1>11
  DEF CameraStep

LEMMA StreamingKeeps ==
  ASSUME TrackerInv, FrameStep \/ FrameArrives \/ CameraFails
  PROVE  TrackerInv'
<1> USE DEF TrackerInv, TypeOK, Threads, Pipeline, Started, LoopRuns, Streaming,
        FreedOnlyAfterCameraEnded, HoldsLoop, startVars, loopVars
<1>1. CASE FramePublished
  <2>1. TypeOK'
    BY <1>1, FramesAssumption DEF FramePublished
  <2>2. Threads'
    BY <1>1 DEF FramePublished
  <2>3. Pipeline' /\ Started' /\ LoopRuns'
    BY <1>1 DEF FramePublished
  <2> QED
    BY <2>1, <2>2, <2>3
<1>2. CASE FrameFails
  BY <1>2 DEF FrameFails
<1>3. CASE FrameArrives
  BY <1>3 DEF FrameArrives
<1>4. CASE CameraFails
  BY <1>4 DEF CameraFails
<1> QED
  BY <1>1, <1>2, <1>3, <1>4 DEF FrameStep

LEMMA TrackerInvHolds == Spec => []TrackerInv
<1>1. TrackerInv /\ [Next]_vars => TrackerInv'
  <2>1. TrackerInv /\ UNCHANGED vars => TrackerInv'
    BY DEF vars, startVars, loopVars, pipeVars, TrackerInv, TypeOK, Threads, Pipeline,
           Started, LoopRuns, Streaming, FreedOnlyAfterCameraEnded
  <2> QED
    BY <2>1, CallerKeeps, CameraKeeps, StreamingKeeps DEF Next, Finished
<1> QED
  BY <1>1, TrackerInit, PTL DEF Spec

\* Every variable of the tracker stays in its type, for any number of frames.
THEOREM TrackerTypeCorrect == Spec => []TypeOK
  BY TrackerInvHolds, PTL DEF TrackerInv

\* on_new_sample never runs without the data on the camera thread's stack: the
\* thread does not release it before the pipeline has stopped.
THEOREM TrackerCallbackHasItsData == Spec => []CallbackHasItsData
<1>1. TrackerInv => CallbackHasItsData
  BY DEF TrackerInv, Pipeline, CallbackHasItsData
<1> QED
  BY <1>1, TrackerInvHolds, PTL

\* No frame is on its way to a stream that was stopped: the stream is stopped
\* only after the camera thread was joined, or never created.
THEOREM TrackerStreamOutlivesFrames == Spec => []StreamOutlivesFrames
<1>1. TrackerInv => StreamOutlivesFrames
  BY DEF TrackerInv, Threads, Pipeline, StreamOutlivesFrames
<1> QED
  BY <1>1, TrackerInvHolds, PTL

\* A vision_tracker_start that fails leaves no thread, stream or loop behind.
THEOREM TrackerFailedStartLeavesNothing == Spec => []FailedStartLeavesNothing
<1>1. TrackerInv => FailedStartLeavesNothing
  BY DEF TrackerInv, Threads, Pipeline, FailedStartLeavesNothing, HoldsLoop
<1> QED
  BY <1>1, TrackerInvHolds, PTL

\* A stop uses a freed loop only if the camera ended on its own: until a stop has
\* quit the loop a tracker that started stays in it.
THEOREM TrackerFreedOnlyAfterCameraEnded == Spec => []FreedOnlyAfterCameraEnded
<1>1. TrackerInv => FreedOnlyAfterCameraEnded
  BY DEF TrackerInv, LoopRuns
<1> QED
  BY <1>1, TrackerInvHolds, PTL

(***************************************************************************)
(* The debug stream, which the tracker starts before its camera thread and *)
(* stops after it.                                                         *)
(***************************************************************************)
\* Who has which descriptor open: a field that is set names an open one, and the
\* server closes what it opened on its way out unless the stopper did.
Descriptors ==
  /\ listenFd <=> "listen" \in open
  /\ IF server = "clientFd" THEN "client" \in open /\ ~clientFd
     ELSE clientFd <=> "client" \in open
  /\ server \in {"none", "socket", "exit"} => ~listenFd
  /\ server \in {"none", "socket", "listen", "test", "accept", "closeListen", "exit"}
       => ~clientFd
  /\ stopper \in {"free", "stopped"} => server \in {"none", "exit"}

\* The frame and its number change only while nobody has the lock, and the server
\* has it from its test of the number to its copy.
FrameCounts ==
  /\ server \in {"check", "copy"} => locked = "server"
  /\ locked = "server" => server \in {"check", "copy", "wait"}
  /\ stopper # "stopped" => buffer = sequence
  /\ server \notin {"none", "exit"} => sent = lastSequence /\ lastSequence <= sequence
  /\ server = "copy" => sequence # lastSequence
  /\ publisher # "idle" => stopper = "idle" /\ sequence < MaxSequence

StreamInv == StreamTypeOK /\ Descriptors /\ FrameCounts

LEMMA StreamInvInit == StreamInit => StreamInv
<1>1. StreamInit => StreamTypeOK
  <2>1. StreamInit => /\ buffer \in 0 .. MaxSequence /\ sequence \in 0 .. MaxSequence
                       /\ lastSequence \in 0 .. MaxSequence
                       /\ sent \in 0 .. MaxSequence /\ clients \in 0 .. MaxClients
    BY BoundsAssumption DEF StreamInit
  <2> QED
    BY <2>1, Zenon DEF StreamInit, StreamTypeOK
<1>2. StreamInit => Descriptors /\ FrameCounts
  BY DEF StreamInit, Descriptors, FrameCounts
<1> QED
  BY <1>1, <1>2 DEF StreamInv

\* The server between two connections.
LEMMA AcceptingKeeps ==
  ASSUME StreamInv,
         \/ OpenSocket \/ Listen \/ AcceptTest
         \/ AcceptFails \/ AcceptBreaks \/ ClientConnects \/ SetClientFd
         \/ ServerClosesClient \/ ServerClosesListen
  PROVE  StreamInv'
<1> USE BoundsAssumption DEF StreamInv, StreamTypeOK, Descriptors, FrameCounts, frameVars,
        fdVars, clientVars, ServerGoes
<1>1. CASE OpenSocket
  <2>1. StreamTypeOK'
    BY <1>1 DEF OpenSocket
  <2>2. Descriptors'
    BY <1>1 DEF OpenSocket
  <2>3. FrameCounts'
    BY <1>1 DEF OpenSocket
  <2> QED
    BY <2>1, <2>2, <2>3
<1>2. CASE Listen
  BY <1>2 DEF Listen
<1>3. CASE AcceptTest
  BY <1>3 DEF AcceptTest
<1>4. CASE AcceptFails
  BY <1>4 DEF AcceptFails
<1>5. CASE AcceptBreaks
  BY <1>5 DEF AcceptBreaks
<1>6. CASE ClientConnects
  <2>1. StreamTypeOK'
    BY <1>6 DEF ClientConnects
  <2>2. Descriptors'
    BY <1>6 DEF ClientConnects
  <2>3. FrameCounts'
    BY <1>6 DEF ClientConnects
  <2> QED
    BY <2>1, <2>2, <2>3
<1>7. CASE SetClientFd
  <2>1. StreamTypeOK'
    BY <1>7 DEF SetClientFd
  <2>2. Descriptors'
    BY <1>7 DEF SetClientFd
  <2>3. FrameCounts'
    BY <1>7 DEF SetClientFd
  <2> QED
    BY <2>1, <2>2, <2>3
<1>8. CASE ServerClosesClient
  BY <1>8 DEF ServerClosesClient, CloseClient
<1>9. CASE ServerClosesListen
  BY <1>9 DEF ServerClosesListen, CloseListen
<1> QED
  BY <1>1, <1>2, <1>3, <1>4, <1>5, <1>6, <1>7, <1>8, <1>9

\* stream_client_loop.
LEMMA ServingKeeps ==
  ASSUME StreamInv,
         \/ SendHeader \/ ClientLoopTest \/ Lock
         \/ CheckFrame \/ BeginWait \/ CopyFrame
         \/ SendFrame \/ ClientLeaves \/ SendFails
  PROVE  StreamInv'
<1> USE BoundsAssumption DEF StreamInv, StreamTypeOK, Descriptors, FrameCounts, frameVars,
        fdVars, clientVars, ServerGoes
<1>1. CASE SendHeader
  BY <1>1 DEF SendHeader
<1>2. CASE ClientLoopTest
  BY <1>2 DEF ClientLoopTest
<1>3. CASE Lock
  BY <1>3 DEF Lock
<1>4. CASE CheckFrame
  BY <1>4 DEF CheckFrame
<1>5. CASE BeginWait
  BY <1>5 DEF BeginWait
<1>6. CASE CopyFrame
  BY <1>6 DEF CopyFrame
<1>7. CASE SendFrame
  BY <1>7 DEF SendFrame
<1>8. CASE ClientLeaves
  BY <1>8 DEF ClientLeaves
<1>9. CASE SendFails
  BY <1>9 DEF SendFails
<1> QED
  BY <1>1, <1>2, <1>3, <1>4, <1>5, <1>6, <1>7, <1>8, <1>9

\* The publisher and the stopper.
LEMMA OthersKeep ==
  ASSUME StreamInv,
         PublishBegins \/ PublisherStep \/ StreamStopBegins \/ StopStep
  PROVE  StreamInv'
<1> USE BoundsAssumption DEF StreamInv, StreamTypeOK, Descriptors, FrameCounts, frameVars,
        fdVars, clientVars, StopperGoes, Broadcast, Waiting
<1>1. CASE PublishBegins
  BY <1>1 DEF PublishBegins
<1>2. CASE Annotate
  BY <1>2 DEF Annotate
<1>3. CASE PublishFrame
  <2>1. StreamTypeOK'
    BY <1>3 DEF PublishFrame
  <2>2. Descriptors'
    BY <1>3 DEF PublishFrame
  <2>3. FrameCounts'
    BY <1>3 DEF PublishFrame
  <2> QED
    BY <2>1, <2>2, <2>3
<1>4. CASE StreamStopBegins
  BY <1>4 DEF StreamStopBegins
<1>5. CASE StopBroadcasts
  BY <1>5 DEF StopBroadcasts
<1>6. CASE StopClosesListen
  BY <1>6 DEF StopClosesListen, CloseListen
<1>7. CASE StopClosesClient
  BY <1>7 DEF StopClosesClient, CloseClient
<1>8. CASE StreamStopJoins
  BY <1>8 DEF StreamStopJoins
<1>9. CASE StopFrees
  <2>1. StreamTypeOK'
    BY <1>9 DEF StopFrees
  <2>2. Descriptors'
    BY <1>9 DEF StopFrees
  <2>3. FrameCounts'
    BY <1>9 DEF StopFrees
  <2> QED
    BY <2>1, <2>2, <2>3
<1> QED
  BY <1>1, <1>2, <1>3, <1>4, <1>5, <1>6, <1>7, <1>8, <1>9
  DEF PublisherStep, StopStep

LEMMA StreamStep ==
  ASSUME StreamInv, [StreamNext]_streamVars
  PROVE  StreamInv'
<1>1. CASE UNCHANGED streamVars
  BY <1>1 DEF streamVars, frameVars, fdVars, clientVars,
    StreamInv, StreamTypeOK, Descriptors, FrameCounts
<1>2. CASE ServerStep \/ SendHeader \/ AcceptBreaks \/ ClientStep
  BY <1>2, AcceptingKeeps, ServingKeeps DEF ServerStep, ClientStep
<1>3. CASE PublishBegins \/ PublisherStep \/ StreamStopBegins \/ StopStep
  BY <1>3, OthersKeep
<1> QED
  BY <1>1, <1>2, <1>3 DEF StreamNext, Stopped

\* Whatever the order of the two threads' closes, the descriptors and the frame's
\* number stay consistent.
THEOREM StreamConsistent == StreamSpec => []StreamInv
BY StreamInvInit, StreamStep, PTL DEF StreamSpec

\* vision_stream_stop returns with no descriptor open, whichever of the two threads
\* that close them came first.
THEOREM StreamLeaksNoDescriptor == StreamSpec => []NoDescriptorLeaks
<1>1. StreamInv => NoDescriptorLeaks
  BY DEF StreamInv, StreamTypeOK, Descriptors, NoDescriptorLeaks
<1> QED
  BY <1>1, StreamConsistent, PTL

\* Each connection is sent frames with growing numbers, however often it is woken.
THEOREM StreamSendsGrowingFrames == StreamSpec => FramesAdvance
<1> DEFINE Advances == sent' # 0 /\ server' = "send" /\ server # "send" => sent' > sent
<1>1. StreamInv /\ [StreamNext]_streamVars => [Advances]_streamVars
  <2> SUFFICES ASSUME StreamInv, StreamNext, server' = "send", server # "send", sent' # 0
               PROVE  sent' > sent
    OBVIOUS
  <2>1. CopyFrame
    BY DEF StreamNext, ServerStep, ClientStep, PublisherStep, StopStep, Stopped,
       streamVars, frameVars, fdVars, clientVars, OpenSocket, Listen, AcceptTest,
       AcceptFails, AcceptBreaks, ClientConnects, SetClientFd, SendHeader,
       ClientLoopTest, Lock,
       CheckFrame, BeginWait, SendFrame, ClientLeaves, SendFails, ServerClosesClient,
       ServerClosesListen, PublishBegins, Annotate, PublishFrame, StreamStopBegins,
       StopBroadcasts, StopClosesListen, StopClosesClient, StreamStopJoins, StopFrees,
       ServerGoes, Broadcast
  <2>2. sent' = buffer /\ server = "copy"
    BY <2>1 DEF CopyFrame
  <2> QED
    BY <2>2 DEF StreamInv, StreamTypeOK, Descriptors, FrameCounts
<1> QED
  BY <1>1, StreamConsistent, PTL DEF StreamSpec, FramesAdvance
=============================================================================
