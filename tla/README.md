# Formal verification of carlinkit-cxx

TLA+ models of the concurrent core of carlinkit-cxx, the TLC runs that check
them, and TLAPS proofs about them. Paths such as `dongle.cpp:79` are relative to
`src/src/`.

## The system

A Carlinkit USB dongle speaks CarPlay with a phone and hands the host a byte
stream of framed messages. The program claims the dongle, cuts the stream into
messages, decodes the video, mixes the audio, captures the microphone and shows
the picture through KMS or Wayland; touches and microphone audio go back.

| Component | State | Operations | Threads |
|---|---|---|---|
| `Dongle` (dongle.cpp) | `running_`, `failed_`, RX ring, `rx_inflight_`, `tx_inflight_` | `start`, `stop`, `send`, `rx_complete`, `tx_complete` | event thread, heartbeat thread, any sender |
| `DongleManager` (dongle_manager.cpp) | `dongle_`, `usb_` under `mu_`; `connected_`, `running_`; backoff, claim failures | `start`, `stop`, `send`, `supervise` | supervisor, main, senders |
| `StreamParser` (stream_parser.h) | header and payload being assembled | `feed`, `reset` | the event thread |
| `AudioInput` (audio_alsa.cpp) | `running_`, thread | `start`, `stop`, `run` | capture thread, event thread, main |
| `AudioMixer` (audio_alsa.cpp) | lanes, each a ring and a gain ramp | `submit`, `run` | event thread, playback thread |
| `SoftwareDecoderSource` | 4 dumb buffers, `pending_`, `displayed_`, `in_flight` | `submit_bitstream`, `acquire`, `release` | event thread, display thread |
| `V4l2DecoderSourceAdapter` | bounded queue, wake pipe | `submit_bitstream`, `pump`, `acquire` | event, pump, display |
| `VaapiDecoderSource` | pending and current frame, retain ring | `on_decoded`, `acquire`, `release` | event, display |
| `GlRotateSource` | last rendered sequence number, GBM buffers | `acquire`, `release` | display |
| `WaylandSink`, `WlShmSink` | buffers held by the compositor | `buffer_for`, `OnRelease` | Wayland loop |
| `TouchMapper` (input_touch.h) | `down_`, cursor, last position, `quit_` | `handle`, `take_cursor_dirty`, `cursor_x`, `cursor_y` | input thread, display |
| input of `main_wayland` | `ptr_down_`, `touch_id_`, last position | `OnTouchDown`, `OnPointerButton` ... | Wayland loop |
| `main_kms`, `main_wayland`, `main_audio` | render loop, page flips, shutdown order | | main |
| `UsbDevice`, `protocol.h`, `config_env.h`, tools | (none worth a model: I/O, formatting, environment) | | |

How they interact. The manager's supervisor thread makes a `UsbDevice` and a
`Dongle`, publishes them under `mu_`, and from then on watches `failed()`. The
dongle's event thread is the only one that handles libusb events: it completes
transfers, feeds the parser, and the parser calls the application's sink *on that
thread*. The sink feeds decoder and mixer, and starts and stops the microphone.
The microphone's thread and the input thread call `DongleManager::send`, which
takes `mu_`. A removal shows as `NO_DEVICE` on some transfer, sets `failed_`, and
makes the supervisor stop the session with `mu_` held, which joins the event
thread. `stop()` of the application joins the supervisor and then does the same.

What is hard: two flags and two counters shared by four threads in `Dongle`
without a common lock; joins under a lock in `DongleManager`; a sink that runs on
a thread that is itself being joined; an event loop that must drain and yet end;
a device that may go at any moment; chunks that end anywhere. What must hold:

- `Dongle`: the counters are exact, nothing is freed under a callback, a removal is
  noticed and never invented, `stop()` returns.
- `DongleManager`: one session at a time; no send reaches a session that is being
  built, stopped or destroyed; no sink call after `stop()`; a usable dongle ends
  up connected; a stuck one is paced and reset.
- `StreamParser`: the messages do not depend on how the stream is cut.
- `AudioInput`: no thread is lost; quitting stops it.
- Decoder sources: no buffer is written while it is shown; the newest frame wins.
- Mixer: no sample is lost or doubled but by the one-second bound; gains end at
  their targets.
- Input: what is touched is what is shown, however the picture is turned; nothing stays
  pressed; the cursor follows; asking to quit ends the program.

`PROJECT.json` lists the hazards line by line.

## Modules

```
DongleSession ........ what a session promises its owner (abstract)
  ^ implemented by Dongle ........ the driver: threads, transfers, counters
  |                   DongleProofs  proofs about Dongle
  | instanced by  DongleManager ... the supervisor, on top of a DongleSession
                    ^ extended by MicSession    + microphone and audio sink
                    |     MicSessionProofs  proofs about both
                    ^ extended by FlapMonitor   + a history of flaps
StreamParser ......... framing, and what a cut of a stream into messages is
                      StreamParserProofs  proofs about it
  ^ extended by MCStreamParser ... + a second definition, as a scan, for TLC

FrameSource .......... what a video source promises its display loop (abstract)
  ^ implemented by KmsVideo ....... carlinkit-kms: KmsDisplay with one of four sources
  ^ implemented by WaylandVideo ... carlinkit-wayland: event loop, compositor, two paths
        both extend  SoftwareSource (CPU decoding), VaapiSource (GPU decoding);
        KmsVideo also V4l2Source (SoC decoding); all three extend
        DecodeThread (what all decode sides have in common)
        SourceProofs  lemmas about the two shared sources, for both of
        KmsVideoProofs, WaylandVideoProofs  proofs about the two programs' video
Rotation ............. the formulas that turn the picture, and touches back
  ^ extended by TouchLink ......... the fit of the picture, the touch messages
      ^ extended by TouchMapper ... carlinkit-kms: libinput events, cursor
      ^ extended by WaylandInput .. carlinkit-wayland: pointer and touch
          both extended by TouchInput + threads and quitting;  MCTouchInput + the instance
          TouchInputProofs  proofs about Rotation and TouchInput
AudioLane ............ what the mixer promises one stream (abstract)
  ^ implemented by AudioMixer ..... lanes, resampling, ramps, playback thread
                    AudioMixerProofs  proofs about it
```

### DongleSession
Four variables: `phase` (new, starting, up, broken, stopping, stopped), `sinkCall`
(where the event thread is with respect to the sink), `failed`, `present`. It
promises that the sink is called only between the middle of `start()` and the join
in `stop()`, that `failed` is raised only for a device that is gone, that a
removal of a session that is up is noticed and that a `stop()` of a session whose
device is gone returns.

### Dongle
| TLA+ | code |
|---|---|
| `running`, `failed`, `rxInflight`, `txInflight` | the atomics of the same names |
| `rx[t]` | a transfer of `rx_`: none, alloc, flying, cancelling, callback, dead, freed |
| `txFlying` | TX transfers that libusb holds |
| `owner`, `evt`, `heart`, `send[th]` | where `start()`/`stop()`, `event_loop`, `heartbeat_loop` and each thread's `send()` are |
| `SendCheck`, `SendNoMemory`, `SendCount`, `SendSubmit` | `send`: the check of `running_`; a failed allocation; `tx_mutex_` and the count; submission, undone on failure |
| `BeginStart` ... `SendWifiConnect` | `start`, with its two ways to fail |
| `RxCompletes`, `RxCheck`, `RxResubmit`, `RxDies` | `rx_complete` |
| `TxCompletes`, `TxUncount` | `tx_complete` |
| `EventsExit`, `HeartBeat`, `HeartExits` | the two loops |
| `BeginStop`, `JoinHeart`, `CancelRx`, `JoinEventsAndFree` | `stop` |

libusb is external: submission succeeds, fails, or reports that the device is
gone (only when it is); a transfer in flight completes, dies, or waits. With
`Serialized` the senders call under `mu_`, as below a `DongleManager`; without it
they call at any time, as in carlinkit-audio. `TransferErrors` lets calls and
transfers fail with the device present. The TX status is not modelled because
`tx_complete` does not look at it.

### DongleManager
`sup` and `main` are the places in `supervise()` and in `start()`/`stop()`, `mu` the
holder of the mutex, `sender[s]` the place in `send()`; `connected`, `dongle`,
`backoff`, `claimFails`, `running` are the members and locals of the same names.
The session is a `DongleSession`, instanced as `S`. A device on the bus is absent,
stuck (opens, cannot be claimed) or ok; a reset may leave it in any of these. Time
is left out: a nap or a sleep is a state that may be left, and whether a session
counts as a flap is a free choice. Two history variables serve `PacedWhileFailing`: `trouble`,
how the last poll or session ended, and `lastNap`, the nap before the last poll. `start()` may fail on any attempt. The time
between the creation of a Dongle and `publish` belongs to the supervisor alone, and
`MaxPlugs` bounds how often the device is plugged in.

### MicSession
Adds the audio sink of the applications (main_kms.cpp:594-611,
main_wayland.cpp:768-785) and `AudioInput`: `sinkPc` is where the event thread is in
the sink, `mic` and `micRunning` the capture thread. Every `EnterSink` and
`LeaveSink` of the session belongs to the sink here. `mic = "lost"` stands for an
assignment over a joinable thread, which would terminate the program. `tail` is where
the main thread is with its own `mic.stop()`, which joins nothing if another thread's
call was first. The error exits of carlinkit-kms (main_kms.cpp:667-670, :718-722)
leave that call to a destructor that runs after the manager's; what a capture thread
does with a destroyed manager has no meaning to model, so only the order of the normal
exit is shown to be right (`MicGoneAfterStop`).

### FlapMonitor
`DongleManager` with one history variable, the wait after the last flap.

### StreamParser
One action per iteration of `feed`'s loop. A header is `HeaderLen` symbols: magic,
length, and one that is 0 when type and check word agree; a payload symbol is any.
All symbols are small numbers so that a payload may contain what looks like a
header, and garbage may nearly be one. `IsCut` says what the messages of the uncut
stream are without a scan: each begins at the first good header behind the one before,
and the last cut is where more of the stream is needed. `MCStreamParser` has the
messages as a scan, recursive, and `ScanIsTheCut` compares the two on every stream
of up to five symbols.

### FrameSource
Frames are numbers. `newest` is the newest frame delivered, `taken` and `shown` the
ones the display thread took and showed last. A display thread takes what is newest
at that moment and never goes back; a frame, or a newer one, is shown unless it is
withdrawn as unusable or the loop has ended.

### DecodeThread, SoftwareSource, VaapiSource
| TLA+ | code |
|---|---|
| `rx`, `fill` | where the event thread is in `on_frame`, and the buffer it writes |
| `pending`, `displayed`, `inFlight`, `poolReady` | `pending_`, `displayed_`, the `in_flight` flags, `pool_ready_` |
| `latest`, `seq`, `borrowed` | `latest_gpu_frame_`, `gpu_frame_seq_`, the borrowed frame and its number |
| `pendingSurf`, `currentSurf`, `retained` | `pending_`, `current_fb_` or `current_native_`, `retained_` |
| `content[b]`, `surface[s]` | the frame a buffer holds, 0 while it is being written |
| `EnsurePool` ... `PublishSlot` | `on_frame` under its three holds of `m_` |
| `Acquire`, `Release`, `AcquireDecodedFrame` | the calls of the display thread |
| `DecodeInto`, `OnDecoded`, `DeliverFails`, `TakePending`, `KeepCurrent` | VAAPI: a frame decoded, delivered, lost, taken, or refused |

The codec is external. It may yield a frame or not, and a VAAPI frame goes into any
surface no live `AVFrame` refers to; the codec's own references are left out, which
only gives it more choice.

### V4l2Source
| TLA+ | code |
|---|---|
| `queue`, `wake`, `failed` | `queue_`, a byte in the wake pipe, `failed_` |
| `pump`, `cur` | where the pump thread is, and the chunk it holds (`have_cur`) |
| `Submit`, `SubmitIgnored`, `Nudge` | `submit_bitstream`: the queue under `q_m_`, the early return, the write to the pipe |
| `PumpPolls`, `PumpDrains`, `PumpDrives`, `PumpTakes`, `PumpSubmits`, `PumpWaits`, `PumpFails` | one round of `pump`, its inner loop, and its two fatal errors |
| `PumpEnds` | the destructor |
| `AcquireCapture`, `HasFreshCapture` | the display thread's calls |

The inner source of drm-cxx and the driver are external: `output` is its OUTPUT queue,
a `drive()` collects any number of finished chunks, each of which may or may not have
yielded a picture, a chunk may be refused for good, and `acquire()` gives the newest
picture again while there is no newer one. `poll()` may return at any time, as its 50 ms
allow. A `poll` that fails is the same step as a `drive` that fails.

### KmsDisplay, KmsVideo
`disp` is the place in `main`: preroll, first commit, render loop. `queued`,
`onScreen` and `prev` are the buffer the kernel will flip to, the one it scans out,
and the one that has left the screen and is still to be released. The drm-cxx scene
and the kernel are external: a commit acquires one buffer, and the scene releases
the one that left the screen after the flip and before the next commit. Commits may
fail (the program ends). `GlRotateSource` is the backend "gpu": `GlBorrow` and
`GlSwap` are the two ends of `render_frame`, between which frames may arrive. Not
modelled here: screenshots; the cursor and the scaling probe are in the input modules.

### WaylandVideo
`evt` is the eventfd, `framePending` and `lastShmSeq` the members of the same names.
Each handler of the event loop (eventfd, frame callback, release) ends in
`RenderIfReady`: its test belongs to the handler's step, taking the frame and
presenting it are two more. `age` says which surfaces the compositor holds and for how
many commits. The compositor is external; it asks for a frame only while it holds
none older than `MaxAge` commits. Not modelled: failed allocations of proxies and shared
memory, resizes of the window.

### Rotation, TouchLink
`Rotation` has the formulas written apart in four places of the code: `CpuSource`
(`rotate_nv12`), `GlSource` (`rot_matrix` and the vertex shader), `ToVideo` and
`RotateDelta` (`to_video`, `rotate_delta`), and the plane's, which is external: a turn
counter-clockwise, as software_decoder_source.cpp:399-401 takes it to be, composed of
quarter turns. Pixels are pairs of integers and points are in half pixels, so that
nothing is rounded. `TouchLink` adds who rotates (`Painter`, from the plane's abilities,
EGL, CARLINKIT_ROTATE_GPU and the decoder; `Content`: the sides are swapped only
for what the plane rotates; `DRM_MODE_ROTATE_0`, which main_kms.cpp:479 passes to a source whose
test at software_decoder_source.cpp:229 is for 0, makes no difference there, since
that source hands out its frames before the test), the fit into the display (`Fitted`, with the native size
when the plane does not scale), and the touch messages: `pressed` and `last` are what
the dongle has been told. The session is taken to be up,
and the phone to send the size it was asked for, which is the one main_kms.cpp:482-484
gives the GPU painter.

### TouchMapper, WaylandInput, TouchInput
| TLA+ | code |
|---|---|
| `cursor`, `dirty`, `down`, `last` | `cx_`/`cy_`, `cursor_dirty_`, `down_`, `last_x_`/`last_y_` |
| `Emit`, `TouchDown`, `TouchMotion`, `TouchUp`, `PointerMotion`, `PointerButton` | `emit`, `handle_touch`, `handle_pointer` |
| `TakeDirty`, `ReadAxis`, `MoveCursor` | main_kms.cpp:826-827, each under its own hold of `cur_m_` |
| `InputExits`, `RenderQuits`, `CommitFails`, `JoinInput` | the input thread's loop, the render loop's ways out, the join |
| `sized`, `pointer`, `ptrDown`, `touchId` | `surf_w_ > 0`, the pointer handler's `x_`/`y_`, `ptr_down_`, `touch_id_` |
| `OnTouchDown` ... `OnPointerButton`, `SendTouchNorm` | the methods of `App` of the same names |

libinput and the compositor are external: a finger goes down once before it goes up,
and a grab delivers points outside the surface. Whether a drag movement falls into the
`touch_interval_` after the last one is a free choice. `fingers`, `button`, `at` and
`cancelled` are history: what the user really holds, where, and whether the compositor
has cancelled it, which carlinkit-wayland does not listen to.

### AudioLane, AudioMixer
`AudioLane` is a read position in a stream. `AudioMixer` has a lane for each stream
(named by its rate): a ring as the interval `head..tail` of its stream, `pos` in
fractions of a frame, `gain`, `target`, `step`. `Mixed` is `mix_lane` in closed form.
The lane's values are counted, not heard. Time is a choice: an empty lane may be
forgotten, and the thread may go idle when all are empty.

## Runs

| Run | Configuration | Shows |
|---|---|---|
| dongle | 2 RX transfers, 1 sender, 1 init message, 3 TX, all failures | type; exact counters; quiet after the event thread's exit; no false alarm; removal noticed; stop returns once the device is gone; refinement of `DongleSession` including its liveness |
| mic_session | 2 senders, backoff 1..3, reset after 2 failures, 2 plugs | type; sends reach live sessions; one session at a time; no sink call after stop; `connected` implies a session; after a failed claim, a reset or a flap a nap before every poll, doubling while claims fail; no lost microphone thread, and none after `main`'s `mic.stop()`; reconnection, reset and quitting complete, but for the two obstructions below |
| stream_parser | streams of up to 7 symbols of 0..3, headers of 3, payloads to 2 | chunking is irrelevant; the buffers fit; feed returns |
| kms_video | each of four backends; 4 dumb buffers; 4 surfaces, 2 retained; chunk queues of 2 and 1; 4 frames | type; no buffer that is shown, queued or next to be shown is written; the decode thread always finds a buffer; refinement of `FrameSource` with its liveness; the last chunk before a pause reaches the V4L2 decoder |
| wayland_video | dmabuf and shm; 3 shm buffers; 4 surfaces, 2 retained; 4 frames | type; no surface the compositor holds is written, if it holds none for longer than is retained; refinement of `FrameSource` with its liveness |
| audio_mixer | streams of rate 1 and 3, output 2, blocks of 3, cap 2, 4 frames each, 2 ramps | type; the ring is bounded and holds the unread; ramps stay in bounds; refinement of `AudioLane`; everything accepted is mixed |
| touch_input | display of 8 x 4, picture of 4 x 2, four ways to turn and scale it, 2 fingers at 2 points, a mouse; both programs | type; touches and drags hit the pixel that is shown there; nothing stays pressed; the cursor is never left behind; asking to quit ends the program |
| dongle_late_resubmit | as dongle, no failures | **violated**: a transfer escapes the cancel loop of `stop()` |
| dongle_orphan_tx | as before, sends not serialised | **violated**: a send is submitted after the event thread's exit |
| mic_deadlock | as mic_session, 1 plug | **violated**: three threads wait for each other |
| failed_start | 1 sender, 1 plug | **violated**: a failed `start()` is never noticed |
| flap | backoff 1..20, 3 plugs | **violated**: the wait between flaps does not grow |

The bounds. Two RX transfers let one be in its callback while the other is
cancelled, dies or fills; they are interchangeable in the code, and the proofs
cover any number. Three TX transfers let the owner, the heartbeat and a sender be
in `send()` together. The init messages are alike, so one shows the interleavings
of all. Two plugs show a second session after everything that can happen to the
first; two reset-triggering failures and a backoff that reaches its cap in three
steps show each branch of the pacing. Seven symbols hold two messages, or a
message, garbage and a cut message. Four frames and as many surfaces or buffers let a
buffer be used a second time while the others are queued, shown and pending. `KRetain` is
2 instead of the code's 4: a tighter ring, with which KMS needs no more and a
compositor may be one commit behind; what matters is `MaxAge < KRetain`: a
compositor that keeps a surface for `KRetain` commits reads it while the decoder writes the
next frame into it, since `VaapiDecoderSource` pins the last four it handed out and ignores
the release that wayland_sink.cpp:88-89 waits for. A chunk queue of 2 over an OUTPUT queue of
1 overflows with four frames while the pump holds one back. The display is wider than the
picture, so that turned sideways it has borders to touch, and the picture is half its size, so that
every pixel has an inside and edges; a step of the mouse is
the height of the display, a step of a drag its width. In the mixer one stream is
slower than the output and one so much faster that a read position overruns the ring by
a whole frame. `CHECK_DEADLOCK` is on in every run; the end of
the program is a stuttering step.

Each property of a passing run has a mutant: a one-line mistake in a definition
(`..._NoWait`, `..._Forgotten` and so on, next to the definition they replace) under
which TLC finds the property violated.

### Findings

1. **Late resubmit** (dongle.cpp:79-83): `rx_complete` sees `running_`, `stop()` cancels
   the ring, the transfer is resubmitted. `stop()` then waits until the device sends.
2. **Orphan TX** (dongle.cpp:34-50): the check of `running_` and the count are apart,
   so the event loop can exit between them. Only carlinkit-audio is exposed.
3. **Circular wait** (dongle_manager.cpp:31, :131; audio_alsa.cpp:298;
   dongle_manager.cpp:44): teardown under `mu_`, the sink in `mic.stop()`, the
   microphone in `send()`.
4. **Ignored start failure** (dongle_manager.cpp:88).
5. **Flap backoff** (dongle_manager.cpp:98): cleared by every connect.

`ReconnectsOrWaits`, `StuckIsResetOrWaits` and `QuitCompletes` say that 3 and 4 are
the only things that keep the supervisor from its work.

## Fairness

`Dongle`: every thread keeps running (weak fairness of its steps); libusb reports
transfers that have ended however many others there are (strong fairness of the
completion of TX transfers, which time out after a second, and of transfers that
were cancelled or whose device is gone). The mutex in `send()` starves nobody
(strong). The heartbeat is strong because the bound `MaxTx` may hold it back, which
nothing in the code does; and memory is not exhausted for ever. The device need
not send anything, fail, or go; no application thread need send; the owner need
not stop.

`DongleManager`, `MicSession`: threads run, and a `std::mutex` that becomes free again
and again is acquired in the end. Of a session only `DongleSession`'s two promises
are used. A reset that is tried for ever works in the end, which is needed only for
`StuckIsResetOrWaits`. No fairness makes the microphone hear anything or the phone
send commands.

`KmsVideo`, `WaylandVideo`: both threads run; the kernel performs and reports every
flip it was asked for; drawing on the GPU does not fail for ever (strong); the
compositor asks for frames, as it does for a visible surface, and releases what it has
replaced. Frames need not come, nobody need quit. The pump thread runs, and the driver
finishes what it has been given (strong, since other rounds may collect less).

`TouchInput`: the threads run. The user need not do anything, nor the phone, and no frame
need come: `QuitEnds` follows from the tests of the two flags alone.

`AudioMixer`: the playback thread runs, and the device takes or refuses a block.

## Proofs

`DongleProofs`, for every value of the constants that satisfies `ConstantsOK` (a
finite non-empty ring, distinct threads):

- `TypeCorrect`, `AccountingHolds`, `QuietHolds`, `NoFalseAlarm`: the four invariants of
  the run `dongle`.
- `SessionRefinement`: with `Serialized`, `Spec => SessionSafety`: initial states map to
  initial states and each step to a session step or a stutter.

The argument. `InflightAccounting` is not inductive: that the event loop leaves
only when the ring is empty needs to know which transfer states can occur while the
owner and the event thread are where they are (`RingInv`), and that one thread at a
time is between the count and the end of its send (`SendInv`, the mutex). Their
conjunction with the type invariant, `FailedMeansGone` and the accounting itself is
`IInv`, proved inductive part by part: one lemma per part, one step per action. The
RX count is a cardinality: `RingCount` says what adding or removing a transfer does
to it, from the library's theorems on finite sets, and `CountOne` does the same for
the single counted sender. `QuietAfterExit` is part of `RingInv`; the exit step proves
it from `rxInflight = Cardinality(InRing)` and `rxInflight <= 0`. The refinement adds
`ThreadInv`, which relates the owner's place to the threads' existence.

`MicSessionProofs`, for every set of senders, pacing and number of plugs that satisfies
`ManagerConstantsOK` and `MicIsSender`:

- `SendsAreGuarded`, `SinkEnds`, `ConnectedHolds`, `FailingIsPaced`, `OneAtATime`: of the
  supervisor, the five safety properties of the run `mic_session` about the
  supervisor: three invariants and two action properties.
- `SessionsAreUsedAsPromised`: whatever happens to a session is a step of
  `DongleSession`, until a claim makes the next one. `Dongle` is proved to implement
  `DongleSession` (`SessionRefinement`), so this is the other half of the composition.
- `MicIsManager`: `MicSpec => Spec`, so that all of this holds with the microphone wired in.
- `TypeCorrect`, `NoThreadLost`, `MicGone`: the invariants of the microphone.

The argument. None of the five is inductive, since each speaks of a session, a thread and a
mutex in different places. `SessionInv` says in which phases the session can be while
the supervisor or `stop()` is where it is, `EventInv` the same of the session's event
thread, `OwnerInv` when the supervisor has published a session and knows it, `LockInv`
who holds `mu_`, `PaceInv` that trouble has set the
backoff, that a failed claim has doubled it since the last nap, and that whoever opens or
claims has napped for it. `MicInv`
adds that a capture thread that is not running is being joined, by one thread; that
`tail` has begun only when `main` is done, hence when no sink runs, is what it takes
from the supervisor's invariant.

`StreamParserProofs`, for every length of header (at least 3), message and stream,
`ParserConstantsOK`:

- `TypeCorrect`, `AssemblyFits`: every copy stays inside chunk and buffers.
- `ChunksDoNotMatter`: the messages dispatched are a cut of the stream, however it was
  cut into chunks and whatever of it is garbage.
- `OneReading`: a stream has one cut, so the theorem before leaves the parser no choice.

The argument. The type and the two buffer bounds are inductive together, `IInv`. `ScanInv`
is the bridge to the uncut stream: the chunk is its end, what is held of a header or
payload is the piece of it at `Scanned`, and what is before `Scanned` has been cut
into the messages dispatched. Each step of `feed` is then one of three facts on cuts: a
byte is skipped (`CutSkips`), a message is dispatched (`CutDispatches`), more of the
stream changes nothing before (`CutGrows`). With the chunk used up, the scan waits
where the cut ends. `OneReading` compares two cuts at the first place where they
differ, which exists by well-foundedness; no theorem with an operator parameter is
needed.

`SourceProofs` has what both programs' video needs of a source, whatever the display
thread does with the frames: `VaapiInv` (the surface written is one nobody refers to,
the pending one is newest, the current one pinned), `PoolInv` and `IngestInv` (the
same for the software source's two lanes), and `Recent(s, n)`, that a surface is among
the last `n` taken and still pinned.

`KmsVideoProofs`, for every number of frames, buffers, surfaces and queue places that
satisfies `MaxFramesOK`, `KBufsOK`, `NoneIsNoSlot`, `NoneIsNoSurface`, `KRetainOK`, `QueuesOK`,
`BuffersDistinct`, `BackendsOK`, with a ring that retains two surfaces (`KRetain >= 2`,
vaapi_decoder_source.h retains four):

- `TypeCorrect`; `FramesAreWhole`: no buffer shown, queued, or next to be shown is written.
- `FourBuffersAreEnough`: with four dumb buffers or more one is free. Two at most are
  with kernel and scene, one of them the last handed out, and one is pending.
- `RefinesSource`: with each source, each step is a step of `FrameSource` or a stutter.
- `NewestChunkNotDropped`, `ChunksAreFedInOrder`: until the pump fails, the newest chunk is
  last in the queue, in the pump's hand or offered, and chunks are offered in order.
  This is the safety half of `NewestChunkFed`; that the pump gets there is fairness.

The argument. `DisplayInv` says which of the four places have a buffer at each point of the
loop; then one part for each backend says what these buffers are to the source: in
flight and nothing else (`SoftwareInv`), the last two taken (`VaapiPathInv`), the drawn
picture (`GlInv`), the chunks strictly in order through queue, pump and driver (`V4l2Inv`).

`WaylandVideoProofs`, for every number of frames, surfaces and buffers, `PathsOK`,
`MaxAgeOK` and the assumptions of the sources, with `MaxAge < KRetain`:

- `TypeCorrect`; `SurfacesAreWhole`: no surface the compositor may read is written.
- `RefinesSource`: as for KMS.

The argument. `AllRecent`: what the compositor holds since `n` commits is among the last
`n` frames taken, and `LoopInv`: a frame is taken only when the compositor has asked,
and then it holds nothing older than `MaxAge`. So what leaves the ring is held by nobody.
Without `MaxAge < KRetain` this is false, see the bounds.

`AudioMixerProofs`, for every set of stream rates, output rate, block, cap and bound,
`RatesOK`, `SizesOK`, `BoundsOK`:

- `TypeCorrect`; `RingsAreBounded`; `RampsNeverOvershoot`; `LanesPlayInOrder`: all safety of the
  run `audio_mixer`, the refinement of `AudioLane` included.

The argument. A block is closed form: how many of its output frames find data is a division,
and `HeardFirst` shows that they are the first ones, `PassedWithin` that what is erased
after them is what the position has passed. A ramp's step is a quotient with the sign of
the distance and no larger (`DuckStep`), and `RampOK` keeps it leading to its target. The
products of two variables are beyond the SMT solver and come as lemmas (`Products`,
`Division`).

`TouchInputProofs`, for every size of the picture and every multiple of 90 degrees:

- `CpuMatchesPlane`, `GpuMatchesCpu`: `rotate_nv12()`, the matrices of `GlRotateSource`
  and a plane that turns counter-clockwise put every pixel at the same place.
- `TouchComesBack`: `to_video()` takes its centre back; `DragComesBack`: `rotate_delta()`
  and `to_video()` undo each other.

And for every display, picture, set of touch points and fingers, and
every way to turn and scale that satisfies `SizesOK`, `NowhereOK`, `StepsOK` and
`ViewsShow` (the fitted picture is at least a pixel wide and high, which a very
elongated picture on a very small display is not: `lround` would give 0):

- `TypeCorrect`, `TouchHitsPicture`, `NothingStuck`, `CursorCatchesUp`: the four invariants
  of the run `touch_input`.

The argument. `view` never changes and has the shape `ViewOK` (`ViewHolds`).
`TouchHitsPicture` is geometry: `PixelSpans` shows, on one axis, that the pixel shown at a point
contains it however the picture is scaled (the division rounds down, and the last
pixel keeps the far edge), `SpansMirrored` that this survives turning the axis round, and
`TouchMeetsPixel` puts the two axes together for each angle, by the two theorems about
the rotations. For a drag, `PushedBy` says that a cursor that moves and does not leave the
display moves by exactly `rotate_delta()`, which `DragComesBack` undoes. The invariant
`IInv` carries these facts, the type and the pointer's place through every handler.
`NoStuckTouch` is not inductive: it needs `PressInv`, which ties `pressed` to
`down_`, or to `ptr_down_` and `touch_id_`, and these to what the user holds. Nor is
`CursorFollows`: `CursorInv` says that a movement seen between the two reads has set the flag
again (`late => dirty /\ moving`).

Every invariant that a passing run checks is proved, and every action property. Only
model-checked, because fairness, `ENABLED` and recursive operators are out of the
prover's reach:

- liveness: `RemovalDetected`, `StopReturnsOnceGone` and the two leads-to parts of
  `SessionSpec`; `ReconnectsOrWaits`, `StuckIsResetOrWaits`, `QuitCompletes`; `FeedReturns`;
  the leads-to parts of `FrameSource` in the two `KeepsSource`, and `NewestChunkFed`;
  `EveryFrameMixed`; `QuitEnds`;
- that the recursive scan of `MCStreamParser` is the cut, on streams of up to 5 symbols;
- the five findings, which are counterexamples.

## Plan

Done: DongleSession, Dongle, DongleManager, MicSession with the order of the shutdown,
FlapMonitor, StreamParser; FrameSource with the software, GPU-rotated, VAAPI and V4L2
sources below the KMS and the Wayland loop; AudioMixer; the input of both programs with
the rotations; and the safety proofs of all of them. Left:

1. Proofs: variants for the liveness of loops that end by themselves (`FeedReturns`: each
   step of `feed` leaves less of the chunk, or less to skip), as action properties.
2. The length of a gain ramp, which is computed at the stream's rate and played at
   the output's.

Not modelled, and not planned: formatting of messages (`protocol.h` builders),
environment variables, command line tools, the colours of pixels, screenshots,
negotiation with the DRM and Wayland libraries beyond what the sources rely on.
