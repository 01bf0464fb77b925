---------------------------- MODULE VisionStream ----------------------------
(***************************************************************************)
(* The HTTP debug stream: a server thread that serves one client at a time *)
(* the latest annotated frame, the camera thread that publishes frames,    *)
(* and vision_stream_stop.  running, listen_fd and client_fd are shared    *)
(* without the lock; the lock covers the frame and its sequence number.    *)
(* close_stream_fd is one step: when both threads enter it for the same    *)
(* descriptor the second close finds it closed, as nobody opens another    *)
(* one meanwhile.                                                          *)
(***************************************************************************)
EXTENDS Naturals

CONSTANTS
  MaxSequence, \* bound on the number of published frames (not in the code)
  MaxClients   \* bound on the number of connections (not in the code)

ASSUME BoundsAssumption == MaxSequence \in Nat /\ MaxClients \in Nat

VARIABLES
  server,       \* where vision_stream_thread_main is
  stopper,      \* where vision_stream_stop is
  publisher,    \* where vision_stream_publish_rgb is
  running,      \* stream->running
  locked,       \* who holds stream->lock
  buffer,       \* stream->frame: the number of the frame in it, or 0 for NULL
  sequence,     \* frame_sequence
  lastSequence, \* last_sequence of the client loop
  listenFd,     \* stream->listen_fd: is it set?
  clientFd,     \* stream->client_fd: is it set?
  open,         \* the descriptors the kernel has open
  clients,      \* how many clients have connected
  sent          \* observer: the frame sent last to this client

frameVars == <<buffer, sequence>>
fdVars == <<listenFd, clientFd, open>>
clientVars == <<lastSequence, clients, sent>>
streamVars == <<server, stopper, publisher, running, locked, frameVars, fdVars, clientVars>>

StreamTypeOK ==
  /\ server \in {"none", "socket", "listen", "test", "accept", "clientFd", "header",
                 "loopTest", "lock", "check", "wait", "woken", "copy", "send",
                 "closeClient", "closeListen", "exit"}
  /\ stopper \in {"idle", "broadcast", "closeListen", "closeClient", "join",
                  "free", "stopped"}
  /\ publisher \in {"idle", "annotate", "publish"}
  /\ running \in BOOLEAN
  /\ locked \in {"nobody", "server"}
  /\ buffer \in 0 .. MaxSequence /\ sequence \in 0 .. MaxSequence
  /\ lastSequence \in 0 .. MaxSequence /\ sent \in 0 .. MaxSequence
  /\ listenFd \in BOOLEAN /\ clientFd \in BOOLEAN
  /\ open \subseteq {"listen", "client"}
  /\ clients \in 0 .. MaxClients

\* vision_stream_init and a vision_stream_start that created the thread, or
\* failed to.
StreamInit ==
  /\ server \in {"socket", "none"}
  /\ running = (server # "none")
  /\ stopper = "idle" /\ publisher = "idle" /\ locked = "nobody"
  /\ buffer = 0 /\ sequence = 0 /\ lastSequence = 0 /\ sent = 0
  /\ listenFd = FALSE /\ clientFd = FALSE /\ open = {}
  /\ clients = 0

(***************************************************************************)
(* The server thread, between the client's connections                     *)
(***************************************************************************)
ServerGoes(from, to) == server = from /\ server' = to

\* close_stream_fd
CloseListen == listenFd' = FALSE /\ open' = IF listenFd THEN open \ {"listen"} ELSE open
CloseClient == clientFd' = FALSE /\ open' = IF clientFd THEN open \ {"client"} ELSE open

OpenSocket ==
  /\ \/ /\ ServerGoes("socket", "listen")
        /\ listenFd' = TRUE /\ open' = open \cup {"listen"}
     \/ /\ ServerGoes("socket", "exit")
        /\ UNCHANGED <<listenFd, open>>
  /\ UNCHANGED <<stopper, publisher, running, locked, frameVars, clientFd, clientVars>>

\* bind and listen; on a descriptor that stop has closed they fail.
Listen ==
  /\ server = "listen"
  /\ \/ server' = "test" /\ "listen" \in open
     \/ server' = "closeListen"
  /\ UNCHANGED <<stopper, publisher, running, locked, frameVars, fdVars, clientVars>>

AcceptTest ==
  /\ server = "test"
  /\ server' = IF running THEN "accept" ELSE "closeListen"
  /\ UNCHANGED <<stopper, publisher, running, locked, frameVars, fdVars, clientVars>>

\* accept fails once stop has shut the listening socket down.
AcceptFails ==
  /\ ServerGoes("accept", "closeListen")
  /\ "listen" \notin open
  /\ UNCHANGED <<stopper, publisher, running, locked, frameVars, fdVars, clientVars>>

\* It may also fail on an open socket: interrupted it is tried again, on any other
\* error the server gives up.
AcceptBreaks ==
  /\ server = "accept" /\ server' \in {"test", "closeListen"}
  /\ "listen" \in open
  /\ UNCHANGED <<stopper, publisher, running, locked, frameVars, fdVars, clientVars>>

ClientConnects ==
  /\ ServerGoes("accept", "clientFd")
  /\ "listen" \in open /\ clients < MaxClients
  /\ clients' = clients + 1 /\ open' = open \cup {"client"}
  /\ UNCHANGED <<stopper, publisher, running, locked, frameVars, listenFd, clientFd,
                 lastSequence, sent>>

\* Mutant of SetClientFd: the descriptor stays in the local variable.
SetClientFdMissing ==
  /\ ServerGoes("clientFd", "header")
  /\ lastSequence' = 0 /\ sent' = 0
  /\ UNCHANGED <<stopper, publisher, running, locked, frameVars, fdVars, clients>>

\* stream->client_fd = client_fd
SetClientFd ==
  /\ ServerGoes("clientFd", "header")
  /\ clientFd' = TRUE
  /\ lastSequence' = 0 /\ sent' = 0
  /\ UNCHANGED <<stopper, publisher, running, locked, frameVars, listenFd, open, clients>>

(***************************************************************************)
(* stream_client_loop                                                      *)
(***************************************************************************)
\* send_all: it ends when the client has taken the data, or fails once the
\* client is gone or stop has shut the connection down.
SendHeader ==
  /\ server = "header"
  /\ \/ server' = "loopTest" /\ "client" \in open
     \/ server' = "closeClient"
  /\ UNCHANGED <<stopper, publisher, running, locked, frameVars, fdVars, clientVars>>

ClientLoopTest ==
  /\ server = "loopTest"
  /\ server' = IF running THEN "lock" ELSE "closeClient"
  /\ UNCHANGED <<stopper, publisher, running, locked, frameVars, fdVars, clientVars>>

\* Entering the critical section, and entering it again after a wakeup.
Lock ==
  /\ server \in {"lock", "woken"} /\ locked = "nobody"
  /\ server' = "check" /\ locked' = "server"
  /\ UNCHANGED <<stopper, publisher, running, frameVars, fdVars, clientVars>>

\* The condition of the wait loop, then the test after it.
CheckFrame ==
  /\ server = "check"
  /\ \/ running /\ sequence = lastSequence /\ server' = "wait" /\ locked' = locked
     \/ running /\ sequence # lastSequence /\ server' = "copy" /\ locked' = locked
     \/ ~running /\ server' = "closeClient" /\ locked' = "nobody"
  /\ UNCHANGED <<stopper, publisher, running, frameVars, fdVars, clientVars>>

\* pthread_cond_wait: from here on a broadcast wakes the thread.
BeginWait ==
  /\ server = "wait" /\ locked = "server"
  /\ locked' = "nobody"
  /\ UNCHANGED <<server, stopper, publisher, running, frameVars, fdVars, clientVars>>

Waiting == server = "wait" /\ locked # "server"
Broadcast == server' = IF Waiting THEN "woken" ELSE server

\* Mutant of CopyFrame: last_sequence is not updated.
CopyFrameForgets ==
  /\ server = "copy"
  /\ \/ server' = "send" /\ sent' = buffer
     \/ server' = "closeClient" /\ sent' = sent
  /\ locked' = "nobody"
  /\ UNCHANGED <<stopper, publisher, running, frameVars, fdVars, lastSequence, clients>>

\* Mutant of CopyFrame: the frame is sent from inside the critical section.
CopyFrameKeepsLock ==
  /\ server = "copy"
  /\ server' = "send" /\ sent' = buffer /\ lastSequence' = sequence
  /\ UNCHANGED <<stopper, publisher, running, locked, frameVars, fdVars, clients>>

\* The copy, which fails when there is no memory for it.
CopyFrame ==
  /\ server = "copy"
  /\ \/ server' = "send" /\ sent' = buffer /\ lastSequence' = sequence
     \/ server' = "closeClient" /\ UNCHANGED <<sent, lastSequence>>
  /\ locked' = "nobody"
  /\ UNCHANGED <<stopper, publisher, running, frameVars, fdVars, clients>>

\* The client takes the frame ...
SendFrame ==
  /\ ServerGoes("send", "loopTest")
  /\ "client" \in open
  /\ UNCHANGED <<stopper, publisher, running, locked, frameVars, fdVars, clientVars>>

\* ... or has gone away ...
ClientLeaves ==
  /\ ServerGoes("send", "closeClient")
  /\ "client" \in open
  /\ UNCHANGED <<stopper, publisher, running, locked, frameVars, fdVars, clientVars>>

\* ... or stop has shut the connection down.
SendFails ==
  /\ ServerGoes("send", "closeClient")
  /\ "client" \notin open
  /\ UNCHANGED <<stopper, publisher, running, locked, frameVars, fdVars, clientVars>>

ServerClosesClient ==
  /\ ServerGoes("closeClient", "test")
  /\ CloseClient
  /\ UNCHANGED <<stopper, publisher, running, locked, frameVars, listenFd, clientVars>>

ServerClosesListen ==
  /\ ServerGoes("closeListen", "exit")
  /\ CloseListen
  /\ UNCHANGED <<stopper, publisher, running, locked, frameVars, clientFd, clientVars>>

(***************************************************************************)
(* vision_stream_publish_rgb, in the camera's streaming thread             *)
(***************************************************************************)
\* The camera thread is joined before vision_stream_stop is called.
PublishBegins ==
  /\ publisher = "idle" /\ stopper = "idle" /\ running /\ sequence < MaxSequence
  /\ publisher' = "annotate"
  /\ UNCHANGED <<server, stopper, running, locked, frameVars, fdVars, clientVars>>

\* Annotating needs two buffers; without memory the frame is dropped.
Annotate ==
  /\ publisher = "annotate"
  /\ publisher' \in {"publish", "idle"}
  /\ UNCHANGED <<server, stopper, running, locked, frameVars, fdVars, clientVars>>

PublishFrame ==
  /\ publisher = "publish" /\ locked = "nobody"
  /\ publisher' = "idle"
  /\ sequence' = sequence + 1 /\ buffer' = sequence + 1
  /\ Broadcast
  /\ UNCHANGED <<stopper, running, locked, fdVars, clientVars>>

(***************************************************************************)
(* vision_stream_stop                                                      *)
(***************************************************************************)
StopperGoes(from, to) == stopper = from /\ stopper' = to

\* running = 0, without the lock.
StreamStopBegins ==
  /\ StopperGoes("idle", "broadcast") /\ publisher = "idle"
  /\ running' = FALSE
  /\ UNCHANGED <<server, publisher, locked, frameVars, fdVars, clientVars>>

\* Mutant of StopBroadcasts: the condition variable is forgotten.
StopWakesNobody ==
  /\ StopperGoes("broadcast", "closeListen")
  /\ UNCHANGED <<server, publisher, running, locked, frameVars, fdVars, clientVars>>

\* pthread_cond_broadcast, without the lock.
StopBroadcasts ==
  /\ StopperGoes("broadcast", "closeListen")
  /\ Broadcast
  /\ UNCHANGED <<publisher, running, locked, frameVars, fdVars, clientVars>>

StopClosesListen ==
  /\ StopperGoes("closeListen", "closeClient")
  /\ CloseListen
  /\ UNCHANGED <<server, publisher, running, locked, frameVars, clientFd, clientVars>>

StopClosesClient ==
  /\ StopperGoes("closeClient", "join")
  /\ CloseClient
  /\ UNCHANGED <<server, publisher, running, locked, frameVars, listenFd, clientVars>>

StreamStopJoins ==
  /\ StopperGoes("join", "free")
  /\ server \in {"none", "exit"}
  /\ UNCHANGED <<server, publisher, running, locked, frameVars, fdVars, clientVars>>

StopFrees ==
  /\ StopperGoes("free", "stopped") /\ locked = "nobody"
  /\ buffer' = 0
  /\ UNCHANGED <<server, publisher, running, locked, sequence, fdVars, clientVars>>

\* Steps of the server that need nothing of the client.
ServerStep ==
  \/ OpenSocket \/ Listen \/ AcceptTest \/ AcceptFails \/ SetClientFd
  \/ ClientLoopTest \/ Lock \/ CheckFrame \/ BeginWait \/ CopyFrame \/ SendFails
  \/ ServerClosesClient \/ ServerClosesListen
ClientStep == ClientConnects \/ SendFrame \/ ClientLeaves
PublisherStep == Annotate \/ PublishFrame
StopStep ==
  \/ StopBroadcasts \/ StopClosesListen \/ StopClosesClient \/ StreamStopJoins \/ StopFrees

Stopped == stopper = "stopped" /\ UNCHANGED streamVars

StreamNext ==
  \/ ServerStep \/ SendHeader \/ AcceptBreaks \/ ClientStep \/ PublishBegins
  \/ PublisherStep \/ StreamStopBegins \/ StopStep \/ Stopped

(***************************************************************************)
(* The program's threads are scheduled.  The header fits the socket buffer *)
(* so that sending it does not depend on the client; the client itself may *)
(* connect, read and leave, or do none of it, and no error of accept on an *)
(* open socket is promised.                                                *)
(***************************************************************************)
StreamSpec ==
  /\ StreamInit /\ [][StreamNext]_streamVars
  /\ WF_streamVars(ServerStep \/ SendHeader) /\ WF_streamVars(PublisherStep) /\ WF_streamVars(StopStep)

\* A client is sent each frame at most once, and never an older one, however
\* often it is woken.
FramesAdvance == [][sent' # 0 /\ server' = "send" /\ server # "send" => sent' > sent]_streamVars

\* When the stop has returned no descriptor is left open, whoever closed it.
NoDescriptorLeaks == stopper = "stopped" => open = {} /\ ~listenFd /\ ~clientFd

\* A client that stops reading never holds up the camera: a frame that is
\* ready is published.
ClientNeverBlocksCamera == publisher = "publish" ~> publisher = "idle"

\* vision_stream_stop returns, even with a client that does not read, unless
\* the server thread was between its test of running and its wait.
StopReturnsIfHeard ==
  stopper = "broadcast" /\ ~(server = "wait" /\ ~Waiting)
    ~> stopper = "stopped"

\* vision_tracker.h says of vision_tracker_stop, which stops the stream as its
\* last step, "Stop the camera thread and release GStreamer resources".
StreamStopReturns == stopper = "broadcast" ~> stopper = "stopped"
=============================================================================
