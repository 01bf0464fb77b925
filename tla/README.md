# Jiwy controller: TLA+ models, model checks and proofs

The repository holds the exercises of an embedded systems laboratory and the
project they lead up to, `src/lab13-20simcontroller`: a program on a Raspberry
Pi that homes and controls the two axes (yaw and pitch) of the *Jiwy* pan/tilt
head through an FPGA, and that can follow a coloured object with a camera. Most
models are of that project. The other labs are its predecessors: a PWM module,
a quadrature decoder and an SPI link, each of which returns in lab 13 in its
final form, and the camera programs of lab 15 and lab 06, which handle threads,
signals and failures in ways of their own and are modelled too.

In this file `R` stands for `src/lab13-20simcontroller/RPI-controller`.

## 1. The system

```
   SIGINT/SIGTERM                     camera (GStreamer threads)
        |                                  | on_new_sample
        v                                  v
  keep_running        snapshot       vision_tracker -----> vision_stream
        |            (snapshot_lock)       |  frame (lock,     server thread,
        v                 |                |  condition)       one HTTP client
  main.c --> homing.c     v                v
        \--> control_loop.c --> twentysim_controller.c --> 20-sim models
                 |
                 v  motor_comm_exchange (32 bit frame out, 32 bit frame in)
           rpi_spi_master.c ===SPI===> SPI.v --> PWM.v --> motors
                                         ^                    |
                                         +-- QuadDecoder.v <--+ encoders
```

### Components

| Component | Source | State it keeps | Operations |
|---|---|---|---|
| Command protocol | `R/comm/control_protocol.[ch]` | none | pack a command, unpack counts, limit the duty |
| SPI exchange | `R/comm/rpi_spi_master.c`, `R/comm/motor_comm.h` | file descriptor, mode, speed | open, exchange, close |
| Homing | `R/app/homing.c` | locals: sample index, last moving count, stagnant samples, the two stop counts | `homing_run` |
| Calibration | `R/control/jiwy_calibration.c` | home count and travel per axis | set travel, convert counts and angles, clamp targets |
| Control loop | `R/app/control_loop.c` | previous command, active target, number of the last frame used, next deadline | `control_loop_run` |
| 20-sim wrapper | `R/control/twentysim_controller.c` | controller inputs and outputs | init, step, output to command |
| 20-sim controllers | `R/controller/yaw_controller/`, `R/controller/pitch_controller/` | states and new states of a PID each | initialise, calculate a step |
| Main program | `R/main.c` | `keep_running`, exit status | parse options, home, control, stop |
| Camera tracker | `R/vision/vision_tracker.c` | start result, main loop pointer, pipeline, snapshot | init, start, get snapshot, stop; frame and bus callbacks |
| Debug stream | `R/vision/vision_stream.c` | `running`, two descriptors, frame and its sequence number | init, start, publish, stop; server thread |
| Blob detection | `R/vision/vision_blob.c` | previous blob (the lock on the object) | find the best blob of a frame |
| Image geometry | `R/vision/vision_geometry.c` | none | pixel offset to angle |
| FPGA SPI slave | `R/verilog/SPI.v` | synchronisers, shift registers, bit counter, held command | per clock: sample, shift, load, commit |
| FPGA PWM | `R/verilog/PWM.v` | counter | per clock: compare |
| FPGA quadrature decoder | `R/verilog/QuadDecoder.v` | synchronisers, previous phase, count | per clock: step |
| FPGA top | `R/verilog/TopEntity.v` | none | wiring |
| Camera programs | `src/lab15-spotTracking/green_ball_rpi_*.c`, `src/lab06-Gstreamer-appsink/appsink_pipeline.c` | pipeline, exit code, place of the object under a lock | start, bus and SIGINT callbacks, `on_new_sample`, `on_draw_overlay`, exit |

Scripts, plots and the other labs are listed in `PROJECT.json` with the reason
each is not modelled.

### How they interact

*Calls.* `main` calls `homing_run` and `control_loop_run`, one after the other,
and both reach the FPGA only through `motor_comm_exchange`. *Messages.* One
exchange is one full-duplex SPI frame: it delivers a command and returns the
encoder counts latched when the frame began. The FPGA holds the last complete
command until the next one; nothing resets it when the program ends, hangs or
fails. *Shared state.* `keep_running` is cleared by the signal handler between
any two steps. The camera thread publishes a snapshot under a lock, and the
stream a frame under another. `running`, the descriptors of the stream and
`tracker->loop` are shared without a lock. *Callbacks.* `on_new_sample` runs in
GStreamer's streaming thread on data that lives on the camera thread's stack. In
the preview of lab 15 it and the overlay's `on_draw_overlay` run in two threads
and share a place under a lock on `main`'s stack.

### What is hard here

1. *Energised motors.* The FPGA has no watchdog: whoever returns, fails or is
   interrupted has to leave a stop command behind, and an exchange that fails
   may or may not have delivered its command.
2. *The signal.* It can come between a test of `keep_running` and the exchange
   or return the test guards; homing tests it in four places per drive.
3. *Inferred stops.* Homing takes an encoder that stagnates for a mechanical
   stop. An axis that is slow looks the same; so does one that is slow to start,
   which is not modelled (section 5).
4. *Stale data.* The control loop samples several times per camera frame, sends
   the command of the previous sample, and adds a camera error that belongs to
   an older pose.
5. *Time.* An absolute schedule, lateness tested in truncated microseconds, and
   sleeps in nanoseconds across second boundaries.
6. *Threads that start and stop each other.* Three threads take part in a start
   or stop of the tracker and two in that of the stream, with flags and pointers
   outside their locks.
7. *Saturation.* The 20-sim controllers were generated without protection of
   the integrator; hand-written lines inside the generated code hold it.
8. *Bits.* A frame that ends early, or is longer than 32 clocks; a 16 bit
   counter; phases that change together.

`PROJECT.json` lists each of these at its line under `hazards`, with the
properties that would catch it going wrong, or why there is none yet.

## 2. The modules

| Module | Models | Builds on |
|---|---|---|
| `MotorProtocol` | `control_protocol.c`, the registers of `SPI.v` and the drive condition of `PWM.v` | |
| `JiwyRig` | an exchange with the FPGA, the axes between their stops, the signal | `MotorProtocol` |
| `Calibration` | `jiwy_calibration.c` | `JiwyRig` |
| `Homing` | `homing.c` | `Calibration` |
| `ControlLoop` | `control_loop.c` without its clock, the outputs of `twentysim_controller.c` | `Calibration` |
| `MotorSafety` | what the program promises of the motors (abstract) | |
| `JiwyMain` | `main.c`, composing `Homing` and `ControlLoop`; implements `MotorSafety` | `Homing`, `ControlLoop`, `MotorSafety` |
| `LoopTiming` | the sample schedule and the hold schedule of `control_loop.c` | |
| `TwentySim` | the generated controllers and how `twentysim_controller.c` starts and steps them | |
| `VisionTracker` | `vision_tracker.c`: caller, camera thread, streaming thread | |
| `VisionStream` | `vision_stream.c`: server thread, publisher, stopper | |
| `BlobFill` | the scan and the flood fill of `vision_blob.c` | |
| `BlobTracker` | the rest of `vision_blob.c`: shape test, choice of a blob, lock | `BlobFill` |
| `CameraDemos` | the camera programs of lab 15 (preview, headless) and lab 06 | |
| `FrameLink` | what the FPGA promises of a frame (abstract) | |
| `SpiSlave` | `SPI.v`, clock by clock; implements `FrameLink` | `FrameLink` |
| `Pwm` | `PWM.v`, clock by clock | |
| `Fpga` | `TopEntity.v`: slave and PWM of an axis on one clock and reset | `SpiSlave`, `Pwm` |
| `QuadDecoder` | `QuadDecoder.v`, clock by clock, under a turning shaft | |
| `MC...` | small instances for TLC | |
| `...Proofs` | theorems for every value of the constants | |

`PROJECT.json` maps every definition to the lines it stands for. What follows
says how state and actions correspond to the code.

**MotorProtocol.** A command is a function from `{"yaw", "pitch"}` to records of
direction, enable and duty, in the widths of the C struct (`AxisCommand`: a 16 bit
duty) and of the FPGA registers (`HeldAxis`: 14 bits). `PackAxis` and
`LatchAxis` are the two ends of the frame as arithmetic on 16 bit words, so
that a field spilling into the next would show. `Count16` is the path of a
count: truncated to 16 bits in the FPGA, sign-extended in C.

**JiwyRig.** `held` is what the FPGA holds, `position` where each axis really
is, in counts above its negative stop, `keepRunning` the flag. `Exchange(command,
ok)` is one call of `motor_comm_exchange` together with the sample period that
follows: the reply carries the counts before the step; a failing call leaves
`held` as it was or changed (the ioctl may fail before or after the transfer);
then each axis whose held command drives it moves `MinStep..MaxStep` counts and
is blocked at its stops. The axis model is the mechanical surroundings, needed
to say what "a stop" is. Two observers (`contacted`, `lateDrives`)
record what properties need of the past.

**Homing.** One action per loop test and one per exchange, because the signal
may come between any two: `StartLeg` (the stop exchange that begins a drive),
`DriveTest`, `PushOk`/`PushFails`, `SettleTest`/`SettleStop`, `GaveUp` (the last
line of `drive_axis_until_stalled`, which reads `keep_running` again),
`LegDone`, `Measure`, `FinalStop`. The two stop counts are C locals without an
initial value; `Unset` marks them, and reading one that is unset gives any
member of `GarbageCounts`. `hpc` is `"idle"` once `main` has taken the result, when the
properties of homing say nothing.

**Calibration.** Angles are kept in counts above home. The code's radians are
these counts times a positive constant, as the measured travel is made to span
the configured angle; so clamping and comparing lose nothing. Rounding in
floating point is not modelled.

**ControlLoop.** `EnterLoop`, `LoopTest`, `LoopExchange` (sends the previous
command), `Compute` (new frame, target, clamp, controller, next command),
`Pace`, `ClockFails` (any clock call, sleep or log that makes the code return
at once), `ControlStop`. A controller's output is any member of `Outputs`, in
quarters of one PWM tick, so that the rounding of `lround` is visible, and the
hold schedule gives any of its targets: what the controllers compute is
`TwentySim`, when the schedule switches is `LoopTiming`. Frames are numbered from 1, and 0 stands for `have_vision_frame_count` being false.

**JiwyMain.** `main` from `open` to `exited` with a step per call; `Home` and
`Control` are steps of the two callees. The exits are 0, 1 and 130. `Camera`
publishes frames from the start of the tracker until it is joined.

**MotorSafety.** The contract of the program in one page, without its steps: `Stop`,
`Push`, `BeginControl`, `Steer`, `SignalCame` and `End` say what may happen to the
motors in which stage. `JiwyMain` computes the stage from where `main` is, whether it
has reached the FPGA and how it exited; `drives` from the held command, and `late` from
the commands sent since the signal. Everything else (the drives, the settling, the
samples, the calls that fail) is a stutter. A failed exchange shows as one that leaves
the motors as they were or does what it was to do.

**LoopTiming.** `now`, `loop_start` and `next_deadline` are normalised timespecs;
`DiffUs` truncates toward zero as C does. `Work` takes any of `WorkTimes`,
`Sleep` ends any of `Latencies` after the deadline. `HoldPhaseAt` is
`hold_schedule_target_at`, read with the microseconds since `loop_start` at the
beginning of a sample. The code turns them into seconds first; the rounding of
that division and of `fmod` is left out.

**TwentySim.** `model` has for each axis the two state arrays `s` and `R` and the
output; of the inputs only the difference of target and position counts. The
generated constants follow the tuning of `jiwy_20sim_tuning.h`. With its beta of
0 the derivative part depends on the last two errors only, and in the unit `kp *
step_size / tauI` every quantity is an integer when the target and positions
are: `Derivative` and `Integral` are `tauD` and `tauI` in samples. That is exact
up to the rounding of doubles. The pitch model adds the camera's `corr` input to
its output after the integrator was held; the wrapper always gives it zero. A
`TwentySimStep` takes any target and any position, so the surroundings are free.

**VisionTracker.** `caller` runs `vision_tracker_start` and `_stop`, `camera` is
`vision_thread_main_v4l2` with `run_pipeline_until_quit`, `callback` the
streaming thread. The caller's last step, in a stop as in a failing start, is
`vision_stream_stop`. It may return (`StopStream`, `DiscardStream`) or hang
(`StreamHangs`), as run `stream_stop` shows it can. A quit on a loop that was freed,
possible once the camera ended on its own, has no effect or ends the process
(`"killed"`), and with it its threads (`Alive`). GLib and GStreamer are modelled from how they are used: a quit
before `g_main_loop_run` has no effect, since run sets the flag that quit
clears; setting the pipeline to NULL waits for `on_new_sample`; a message posted
to the bus waits there until the loop runs.

**VisionStream.** `server` is the thread with its accept loop and client loop,
`publisher` is `vision_stream_publish_rgb` called from the streaming thread,
`stopper` is `vision_stream_stop`. Every access to shared state outside the lock
is a step of its own. In the server, `CheckFrame` (the wait condition) and
`BeginWait` (the moment from which a broadcast is heard) are separate, for
`vision_stream_stop` does not take the lock between them. `accept` fails once the
socket is closed (`AcceptFails`) and may fail on an open one (`AcceptBreaks`):
interrupted it is tried again, on any other error the server gives up.

**BlobFill, BlobTracker.** Pixels are numbered row by row as in the flat mask.
`Skip` and `BeginFill` are the scan of `find_green_blob`, `FillPixel` one turn of
the `while` loop of `extract_blob`, `Consider` the rest of the loop body, `Lose`
and `Follow` are `smooth_blob_detection`. The sums of a `BlobRun` are kept as the
set of pixels they are taken over, so that the model can tell which pixels a
blob is made of. Places are in fractions of a pixel. The smoothing weight is
clamped to 0..1 in the code: the filtered place moves any part of the way.

**CameraDemos.** `main` goes from `create` to `exited`, or is `killed` by a SIGINT
that nobody watches for (before `g_unix_signal_add`, after its removal, and
always in `appsink_pipeline`, which waits on the bus without a main loop). The
source's thread pushes into the queues behind the tee, a full queue holds up both
branches, and setting the pipeline to NULL lets go of queues and waits for the
callbacks. The accesses of `on_new_sample` and `on_draw_overlay` to the shared
place are a step each. Green pixels are any of the sets in `Frames`; their mean
is computed as the code does, with a truncating division.

**FrameLink, SpiSlave.** `FrameLink` says that the held registers change only to
the last word of a frame that had all its bits, once, or to zero by the reset. `SpiSlave`
has one action per FPGA clock (`Clock`, `ResetClock`) that reads the registers
before the clock as nonblocking assignments do, and the SPI master's edges
between clocks (`Select`, `Rise`, `Fall`, `Deselect`; external). A change of the
master's lines lasts `MinHold` clocks at least: at 100 kHz and a clock of some
megahertz that is dozens, and three are enough. `Deselect` may come after any
number of bits up to `MaxBits`. A transfer of the program is one register long; a
longer one goes on with any bits, `bitCount` stays at the length of the register and
the last bits are what is held. The master's `sending` is a register that
circulates, so it ends with the bits sent last, and `since` counts the bits since
the frame began or the reset came: when it reaches the length of the register
there is a word to commit. A frame longer than the register may thus deliver a word
although a reset came in the middle of it.

**Pwm, Fpga.** The inputs of `Pwm` are wires, substituted in `Fpga` by fields of
the slave's held word. Both modules step in one clock. `counter` and the outputs
have no initial value in `PWM.v` and start anywhere.

**QuadDecoder.** `Turn` moves the shaft by a quarter line, at most once per clock;
`Clock` and `ResetClock` are the synchroniser and the case statement. Observers
remember where the shaft was when each stage was sampled.

## 3. What the runs check

Runs that must pass:

| Run | Question | Bounds |
|---|---|---|
| `main` | Whatever fails: does homing find the real stops, drive one motor at a time, stop in between, at its return and at the first contact after a failure, and end? Are the motors off at a reported exit, does control need a complete calibration, is a frame used once, does a signal end the run, and is all of it an implementation of `MotorSafety`? | travel 5, 1-2 counts per sample, window 3, threshold 3, 6 samples per drive, 2 settling samples, 2 frames, 2 controller outputs, 2 hold targets |
| `timing` | Is no sample early, does no lateness add up, does the hold schedule switch at the right sample? | 5 samples of 250 ms, six durations of work around the deadline, three latencies, two start times, holds of two samples and one, repeated |
| `tracker` | Does every start report, does a failed one leave nothing, is the callback's data alive, does a camera error end the thread, does a stop get past its join once the loop runs? | 3 frames |
| `blob` | Is each blob one connected component of the frame, none missed, the queue never overrun; is an object that was lost found again? | every frame of 3 x 3 pixels, places in half pixels, lock lost after 2 frames |
| `controllers` | Does the integrator stay bounded and the output leave its limit again; is there no kick at the start? | times of 1-2 samples, limits two samples away, any order of three positions |
| `cameras` | Is a drawn place that of one frame, does the lock outlive the callbacks, does an error, the end of the stream or a SIGINT end the program? | 4 kinds of frames, queues of one frame |
| `fpga` | Does only a frame with all its bits change the motors; is the reply one fresh sample; is the duty exact? | registers of 5 bits (direction, enable, 3 of duty), frames of 0 to 7 bits, 2 commands and any bits after them, 2 counts, hold time 3, period 5 |
| `decoder` | Does the count follow the shaft from any phase, across the wrap, through bounces and resets? | 12 positions, a 3 bit counter |
| `stream` | Is what a client gets a frame and ever a newer one, are all descriptors closed, does a client that stops reading hold up neither camera nor stop? | 3 frames, 2 clients |

Why the bounds are enough. *main*: with a window of 3, a threshold of 3 and
steps of 1-2 counts, the slowest axis moves by exactly the threshold within the
window, so a window or a start-up allowance one sample shorter reports a stop
that is none; the limit of 6 samples lets the slow drives over the whole travel
end at the limit and the others find the stop in time. The axes start
anywhere, the FPGA with a stop command or with both motors on, and the two axes
have different, one of them negative, counts at their stops. Two frames suffice
for one used, one missed and one seen twice. One of the two controller outputs rounds
to a tick more than the limit, the other is negative. *timing*: four samples cross a second;
work ends before, just before, at, just after (within and beyond one
microsecond) and long after the deadline; five samples reach the second turn of
the hold schedule. *tracker* and *stream*: threads are in
a fixed small number; three frames give a first, a missed and a last one, two
clients a descriptor that is reused. *blob*: nine pixels hold two blobs side by
side, blobs at both borders of a row, rings, and a U that the fill enters at one
end; with a jump of one and a half pixels blobs are in and out of reach.
*controllers*: the errors are of both signs and two sizes, so an error can cross
zero or grow while the output is limited, and the limits are reached from either
side within a few samples. *cameras*: a queue of one frame is full after one;
two objects differ in both coordinates, so a mixed place shows.
*fpga*: the shift registers treat all bits alike, so their number only has to
exceed the depth of the synchronisers; hold time 3 is the shortest that works
(at 2 TLC finds violations), the two commands and counts differ in every bit,
and the frame is aborted, reset or the counts change in every clock of it. Two bits
beyond the register show its saturation twice, and the bits after a word make
a duty of the whole period.
*decoder*: the counter wraps inside the range of the shaft.

Some more disagreements have no run. `homing.h:37` promises 0 on success, while an
interrupted homing returns 0 without having homed (`homing.c:152`); `main.c:107`
makes up for it, which is `ControlNeedsHoming` in run `main`. `jiwy_config.h:95`
describes a maximum movement of the camera target per sample, and no code uses
the macro.

Smaller ones without consequence for a property: `SPI.v:104` says that only a
complete 32 bit frame is committed, and the last 32 bits of a longer transfer are
too, which the program never makes; `jiwy_config.h:123-125` promises
a startup failure when the pipeline is not playing in time, and
`vision_tracker.c:318` takes a wait that timed out for a success;
`twentysim_controller.h:27-31` says the controllers' constants come from
`jiwy_config.h`, and they come from `jiwy_20sim_tuning.h`; the programs of lab 15
exit with 0 after a pipeline error; lab 05 does not compile, as its line 58 calls
`gst_init` without arguments.

`stream` is checked without the deadlock test because the program really can
hang there (`stream_stop` below).

Runs that TLC must find violated, each a disagreement between a comment of the
code and what the code does:

| Run | What it shows |
|---|---|
| `homing_span` | `homing.h:33` promises the measured span; after a signal the span is computed of two locals nothing was assigned to (`homing.c:179`). If they are equal the program reports a failed homing instead of the interruption. |
| `tracker_stop` | A stop right after a start is lost when it comes before `g_main_loop_run`: the camera thread goes on and `vision_tracker_stop` waits for it for ever. |
| `stream_stop` | `vision_stream_stop` clears `running` and broadcasts without the lock, so the server thread can miss both and the join never returns. |

### Fairness

`main`: weak fairness of every step of the main thread, homing and control
included, since an ioctl or a sleep returns, except `vision_tracker_start` and the
final join with the camera thread, of which nothing is assumed when there is a
tracker: `SignalEndsRun` takes the run as far as one of these. `tracker`, `stream`:
weak fairness of each thread, and that processing one frame takes finite time. Of
`vision_stream_stop` the tracker assumes only that it returns or hangs for ever:
`StartReturns` and `StopReturnsOnceLooping` say that nothing else holds up the
caller, and the latter claims nothing once a freed loop was used. Never assumed: that a signal, a frame, an error of
the camera, a client, a client's reading or an error of `accept` on an open socket
comes. `blob`: frames keep coming and
each is processed, as long as the camera runs. `controllers`: the loop goes on
sampling; targets and positions are free. `cameras`: `main` and the callbacks go
on, a push into a queue with room returns; that a frame, an error, the drawing of
the next frame or a SIGINT comes is not assumed. `fpga`, `decoder` and `timing` check
safety only. `SendHeader` is fair because
the header is far smaller than a socket buffer.

## 4. What is proved

All theorems hold for every value of the constants that satisfies the named
assumptions in the modules.

| Theorem | Says |
|---|---|
| `JiwyMainProofs!FrameDelivers` | every C command arrives with direction and enable unchanged and the duty limited |
| `JiwyMainProofs!HomingTypeCorrect` | `TypeOK` |
| `JiwyMainProofs!HomingOneMotor` | `OneMotorAtATime` |
| `JiwyMainProofs!HomingStopBetweenPushes` | `StopBetweenPushes` |
| `JiwyMainProofs!HomingOneLateDrive` | `AtMostOneLateDrive` |
| `JiwyMainProofs!HomingQuietReturn` | `QuietReturn`, if at least one settling sample is configured |
| `JiwyMainProofs!HomingStopsAreReal` | `StopsAreReal`, if the threshold is at most the window times the slowest move of a sample |
| `JiwyMainProofs!MainTypeCorrect` | `MainTypeOK`, which includes that the commands of the control loop are within the duty limit for every output of the controllers |
| `JiwyMainProofs!MainOneMotor` | `OneMotorAtATime`, in the whole program |
| `JiwyMainProofs!MainStopBetweenPushes` | `StopBetweenPushes`, in the whole program |
| `JiwyMainProofs!MainOneLateDrive` | `AtMostOneLateDrive`, in the whole program |
| `JiwyMainProofs!MainFirstContactStops` | `FirstContactStops`, which run `main` checks as part of `ImplementsMotorSafety` |
| `JiwyMainProofs!MainQuietReturn`, `MainQuietExit` | `QuietReturn` and `QuietExit`, if at least one settling sample is configured |
| `JiwyMainProofs!MainFrameUsedOnce` | `FrameUsedOnce` |
| `JiwyMainProofs!MainStopsAreReal`, `MainControlNeedsHoming` | `StopsAreReal` and `ControlNeedsHoming`, under the assumption of `HomingStopsAreReal` |
| `JiwyMainProofs!MainImplementsMotorSafety` | `ImplementsMotorSafety`, if at least one settling sample is configured |
| `LoopTimingProofs!LoopNeverEarly` | `NeverEarly` |
| `LoopTimingProofs!LoopNoDrift` | `NoDrift` |
| `LoopTimingProofs!LoopSwitchesOnTime` | `SwitchesOnTime`, for every period, start time and durations of whole periods |
| `TwentySimProofs!ControllerIntegratorBounded` | `IntegratorBounded`, for every tuning with beta = 0, every limits and every sequence of inputs |
| `TwentySimProofs!ControllerDoesNotKick` | `NoDerivativeKick`, likewise |
| `FpgaProofs!SlaveTypeCorrect` | the slave's `TypeOK` |
| `FpgaProofs!SlaveImplementsLink` | `ImplementsLink`: the slave implements `FrameLink`, for every length of its registers and of a frame, if lines stay for three clocks or more |
| `FpgaProofs!SlaveRepliesFresh` | `ReplyIsOneFreshSample`, likewise |
| `FpgaProofs!FpgaDrivesItsDuty` | `DutyIsExact`, for every length of the frame and the period, every duty and however short the master's lines stay |
| `QuadDecoderProofs!DecoderFollows` | `CountFollows`, for every width of the counter and range of the shaft |
| `VisionProofs!TrackerTypeCorrect` | the tracker's `TypeOK`, for any number of frames |
| `VisionProofs!TrackerCallbackHasItsData`, `TrackerStreamOutlivesFrames`, `TrackerFailedStartLeavesNothing`, `TrackerFreedOnlyAfterCameraEnded` | `CallbackHasItsData`, `StreamOutlivesFrames`, `FailedStartLeavesNothing`, `FreedOnlyAfterCameraEnded`, likewise |
| `VisionProofs!StreamConsistent` | the inductive invariant of the stream: its types, who owns which descriptor, which frame is where; for any number of frames and clients |
| `VisionProofs!StreamLeaksNoDescriptor`, `StreamSendsGrowingFrames` | `NoDescriptorLeaks` and `FramesAdvance`, likewise |
| `CameraDemosProofs!DotShowsOneFrame`, `LockClearedLast` | `DotIsOfOneFrame` and `LockOutlivesCallbacks`, for frames of any kind and queues of any length |
| `BlobTrackerProofs!QueueHasRoom` | `QueueFits`, for every width and height and every set of green pixels |
| `BlobTrackerProofs!BlobsAreComponents` | `BlobIsComponent`, likewise |
| `BlobTrackerProofs!ScanMissesNothing` | `NothingMissed`, likewise |

*Homing.* The invariants are not inductive by themselves: what the FPGA holds
depends on where homing is and on whether it has reached the FPGA at all. The
strengthening in `JiwyMainProofs` says, for each place, which commands `held` can
be (a stop command, or the present axis's own push), so that a push can only
meet a stop or itself. It is where a failed exchange matters: it leaves
either the old command or the new one, and both must be allowed. `QuietReturn`
needs `Settle > 0`: with no settling sample a drive that runs out of samples
returns a timeout with the motor on. The configuration has 20 (`jiwy_config.h`),
so this is an assumption of the theorem and not of the module.

*The stops.* A drive takes an axis for stopped when its count has stayed within
the threshold of the last moving one for a whole window. `Advances` relates the
counters of a drive to the distance moved: until it is at its stop the axis has
gone `MinStep` for every sample counted as stagnant, or for every sample of the
drive, the first of which reads the count it started from. A window of stagnant
samples would take it past the threshold unless it is at the stop (`StalledAtEnd`),
and nothing moves it away before its count is read (`StopIsQuiet`), failed
exchanges included. `Threshold <= Window * MinStep` is an assumption of the
theorem: with the threshold of 2 counts and the window of 50 samples
(`jiwy_config.h:35`) one count per sample is more than enough.

*The program.* `Phases` says where main can be while homing has a result to give:
until main has taken it every step of the program is a step of `HomingSpec` or
leaves what homing knows alone (`HomingWithin`). With it the inductive
invariants of homing hold in the composition for as long as homing runs,
and what follows is about what main makes of them. `QuietEnds` carries the
quiet return over the stop exchange whose result main drops: a failed one leaves
the old command or the new one, and both disable the motors. After the control
loop it needs that a loop that returned 0 saw its own stop succeed. `Contact` says
that until the first success only stop commands have been tried. `MainLate` adds
that the control loop gets to an exchange only if no enabling one followed the
signal yet, in homing or in the loop. `FramesInv` says that `updates` and the
frame that waits in the snapshot are together at most the frames published.
`CalibrationInv` says that main passes its check of homing's result only when both
axes have both stops, as an interrupted homing leaves `keep_running` cleared.

*The contract.* `MainImplementsMotorSafety` gathers most of this. Its invariant
`SafetyInv` has one part of its own, `HomedContact`: a homing that returned 0 has
reached the FPGA, so that control, which starts from it, begins in a stage that has
made contact. Each exchange then is one of `Stop`, `Push` (`HomeMaps`), `BeginControl`
or `Steer` (`ExchangesMap`); the exits are `End`, properly only with the motors off
(`QuietEnds`); and what sends nothing stutters (`OthersMap`). The refinement says
more than the invariants together: that the motors turn from standstill after the
first contact, whatever ran before, is about the order of the steps.

*Timing.* `LoopTimingProofs` shows that the deadline is `loop_start` plus
`sample_index` periods in the mixed radix of a timespec (the lemmas on `After`
and the truncated difference), and that a sample begins either after a sleep to
the deadline or with a lateness of at least a microsecond. For the hold schedule
it follows that the truncated elapsed microseconds of a sample lie in the period
of the sample (`ElapsedInPeriod`), as long as it is on schedule. When the
durations are whole periods no switch lies strictly inside a period
(`NoneBetween`), so the number of whole turns (`QuotientIs`) and the phase are
those of the time the sample is due. An elapsed time one microsecond short, or a
test `<=` in place of `<`, breaks either half.

*Controllers.* That the integrator is held while the output is limited does not
bound it: a sample whose error has the other sign is integrated also then, and its
derivative part raises the integrator when the error rises. A zigzag of the error
could seem to pump it up. What does not grow is the larger of two potentials, the
integral state and the integral state less `Derivative` times the error: what a
rise adds was there as an error before. `Within` bounds both, and
`Reserve` is what one sample can add beyond a limit that has just been crossed.

*SPI slave.* `Lines` says what the synchronisers show from the clocks since the
master's last change: with a hold time of three clocks, their depth, at most one of
chip select and clock is under way in them, which orders the ends of a frame and
its edges (`Edges`). `FrameInv` compares two counts of bits: `bitCount` is `since`, or
one less while a rising edge of the master is still in the synchronisers
(`InFlight`), with both saturating at the length of the register. As many bits at the
end of `rxShift` are those at the end of the master's circulating register
(`Caught`), or those before its last one (`CaughtBefore`); frames that end early, go on
or are cut by a reset need no case of their own. So `bitCount` reaches the length of
the register exactly for the frames `Deselect` offers. With the last clock of such a
frame the step is `FrameLink`'s `Deliver`, otherwise it stutters; `ReplyInv` keeps one
sample split between `txShift` and what the master has. Every step of `Fpga` is a step
of the slave together with one of the PWM module or a stutter (`FpgaRefinesSlave`), so
all of this holds of the composition too.

*PWM.* `HighClocks(d, c, n)` is how many of the last `n` clocks found the counter
below `d` when it is now at `c`, written without counting: all of them in this
period, or some in the one before. `PwmInv` says that this, for the duty or the period
if the duty is larger (`High`), is the number of pulses since the wires changed;
`HighClocksStep` takes it over one clock, the wrap included, and over a whole period
it is `d` wherever the period began. A counter that powers up beyond the period is
back in it before a first command can enable the motor, as that takes longer than
the clock in which it returns to zero: `PwmInv` says that it finds the motor
disabled. What the slave holds may be any word.

*Decoder.* The invariant says that the three stages of the pipeline (`sync`, `AB`,
`state`) show positions that differ by at most one from stage to stage, by none
when the shaft was still, and that the count belongs to the position `state`
shows. A clock then moves `state` by one step of the shaft or none, which the
case statement counts in the right direction (`PhaseSteps`); the lemmas on `%`
carry this across the wrap. A reset or power-up in the wrong phase takes the
decoder out of this relation until its state shows the phase of the shaft, which
is what `aligned` records.

*Tracker.* Four relations between the threads make the invariant inductive:
`Threads` (where caller and camera thread can be together, and when the stream
is there, with a caller that hangs in its stop or was killed), `Pipeline` (what the camera thread has built at each of its places:
a callback is under way only between the start of the pipeline and the end of
setting it to NULL), `Started` (the result of the start is published once) and
`LoopRuns` (until a stop has quit the loop, a camera thread that started leaves it only if
the camera ended). The stop that comes before `g_main_loop_run` breaks none of
them: it waits for ever, and frees nothing too early.

*Stream.* `Descriptors` says of each open descriptor who has it: a field that is set
names an open one, between `accept` and its store the server has it alone, and the
server has closed what it opened by its end unless the stop did, although both
sides test and clear the fields without the lock. `FrameCounts` says that the
server has the lock from its test of the number to its copy, so the number it then
notes is the newest and another one than that it noted before.

*Camera programs.* `Exclusion` is the lock, including the places where a callback is
inside; `Stopping` says that no callback is under way after the pipeline is at
NULL, on whichever way out; `Stored` and `Read` say, for each place in the two
callbacks, which of the three fields are of the frame that is being stored or read.

*Fill.* The proof follows the argument one would give on paper, which no test
makes. The queue holds the pixels taken for this blob, each once and none still in the
mask (`QueuedOnce`), so it fits by the pigeonhole principle. The pixels taken by
earlier blobs are adjacent to none in the mask (`Apart`), and neither is one that was
popped from the queue, as its neighbours have been looked at (`Filling`). What has
been taken is connected, since it grows by one neighbour at a time
(`ConnectedGrows`). When the queue is empty nothing is left next to the blob: it is a
component. That the four tests on `pixel_index % width` and `/ width` find exactly the
neighbours in the frame, across no border of a row, is `NeighboursAreAdjacent`,
for any width and height, and by arithmetic alone.

*No kick.* `NoDerivativeKick` needs that the state a controller carries over is the
error of the previous sample (`Remembered`), from the initialisation on.

*The stop command in between.* `StopBetweenPushes` is an action property and
follows from the same invariant, one step per action.

Assumptions: the duty limit fits 14 bits (`PwmMaxAssumption`); the travel does
not wrap the 16 bit counter (`CountAssumption`, see *not modelled*); no sample
and no wake-up takes a second (`DurationAssumption`); an output's range contains
zero (`TuningAssumption`) and errors are bounded (`InputAssumption`), as the
targets are clamped to the travel; the duty of a word fits its bits
(`FpgaAssumption`), a fact about binary numbers that would take an induction over
their length, and which TLC evaluates on the instance; and, in the theorems that name them, `Settle > 0`,
`Threshold <= Window * MinStep` and `MinHold >= 3`, which the configuration and
the SPI clock satisfy by far.

Only model-checked: liveness, which is out of the proof system's reach
(`HomingEnds`, `SignalEndsRun`, `StartReturns`, `CameraEndEndsThread`,
`StopReturnsOnceLooping`, `ClientNeverBlocksCamera`, `StopReturnsIfHeard`,
`LostObjectIsFound`, `Unwinds`, `EndsWhenAsked`); the types of the places in
`CameraDemos` and `BlobTracker`, which are means: a bound on a sum over a set
takes an induction over the set. Every safety property of the passing runs is a
theorem.

## 5. Not modelled

* *Floating point*: angles, image geometry and the rounding of the controllers.
  Camera errors are any member of a set, with the camera's gain included.
* *The pose of a camera frame.* The error of a frame belongs to the pose at its
  exposure and is added to the angle of the sample that sees it
  (`control_loop.c:237`); it would take the camera's delay and a plant in
  continuous motion. The clamp of the target bounds what it can do.
* *An axis that needs several samples to start moving* (`homing.c:137`): a driven
  axis moves at least `MinStep` in every sample. Whether the stop window of 50
  samples (`jiwy_config.h:35`) covers the start is a matter of the mechanics.
* *Spikes on the SPI lines*: a change of the master's lines lasts `MinHold` clocks.
* *The logs, the command line and the drawing of annotations*: no property is
  about them.
* *A travel across the wrap of the 16 bit counter.* `count_span` would be wrong
  (`homing.c:157`). `count` has no initial value in `QuadDecoder.v`; in the
  flip-flops of the iCE40 it is zero, and the travel is a few thousand counts.
* *The reset button* (`TopEntity.v:37`), which clears the counts under a running
  program.
* *An ioctl that transfers less than the message without an errno*
  (`rpi_spi_master.c:61`): the spidev driver does not do that.
* *The programs of lab 15 for macOS*: the same callbacks and the same exit, under
  `gst_macos_main`.
* *The other labs* (01, 04, 05, 07, 08, 09, 11): exercises the modelled parts grew
  out of, most of them vendor files around a few lines.

## 6. Plan

Done: the core (`MotorProtocol`, `JiwyRig`, `Homing`), the program around it
(`ControlLoop`, `JiwyMain`), the proofs of all their safety, the schedules and their proofs, the
generated controllers and the proof that their integrators do not wind up, the
threads of tracker and stream, the camera programs of the earlier labs, the FPGA
clock by clock with the refinement of the frame link and the proofs of PWM and
decoder, and blob detection; for each of them a proof of every safety property
that is checked, and `MotorSafety` with the proof that the program implements it.

What is left, in this order:

1. The link of lab 11 and the bus wrapper of lab 09, as predecessors that differ
   from lab 13 on a short frame.
2. An abstract blob detection, which takes one connected component at a time, and
   the proof that the scan and the flood fill implement it.
