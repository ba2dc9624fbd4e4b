----------------------------- MODULE V4l2Source -----------------------------
(***************************************************************************)
(* src/src/v4l2_decoder_source_adapter.cpp: submit_bitstream() queues the  *)
(* coded chunks, a pump thread feeds them to drm-cxx's V4l2DecoderSource   *)
(* and moves its buffers, and the display thread acquires from it, all     *)
(* under inner_m_.  That inner source, with the driver behind it, is       *)
(* external: its OUTPUT queue holds KOutput chunks, each drive() collects  *)
(* what the driver has finished since the last, a chunk may yield no       *)
(* picture, and acquire() hands out the newest picture, again and again    *)
(* while there is no newer one.  A frame has the number of its chunk.      *)
(***************************************************************************)
EXTENDS DecodeThread, Sequences

CONSTANTS
  KMaxQueue,  \* kMaxQueue, 16 in the code
  KOutput     \* output_buffer_count, 4 in the code

ASSUME QueuesOK == {KMaxQueue, KOutput} \subseteq Nat \ {0}

VARIABLES
  queue,     \* queue_: the chunks that wait
  wake,      \* the wake pipe is readable
  pump,      \* the pump thread, see PumpPlaces
  cur,       \* the chunk in its hand, 0 for none: have_cur
  failed,    \* failed_
  output,    \* the chunks in the OUTPUT queue
  offered,   \* history: the last chunk the inner source has accepted or refused
  current    \* the frame it handed out last

queueVars == <<queue, wake>>
pumpVars == <<pump, cur, failed, output, offered>>
v4Vars == <<queueVars, pumpVars, current>>

PumpPlaces == {"poll",    \* at the top of its loop, or in poll()
               "drain",   \* poll() has seen the wake pipe
               "drive",   \* about to call drive()
               "feed",    \* in the inner loop
               "done"}    \* has returned

V4l2TypeOK ==
  /\ queue \in Seq(Frames)
  /\ Len(queue) <= KMaxQueue
  /\ output \in Seq(Frames)
  /\ Len(output) <= KOutput
  /\ {wake, failed} \subseteq BOOLEAN
  /\ pump \in PumpPlaces
  /\ {cur, offered, current} \subseteq 0..MaxFrames

V4l2Init ==
  /\ queue = <<>>
  /\ wake = FALSE
  /\ pump = "poll"
  /\ cur = 0
  /\ failed = FALSE
  /\ output = <<>>
  /\ offered = 0
  /\ current = 0

(***************************************************************************)
(* submit_bitstream(), on the session's event thread.                      *)
(***************************************************************************)
\* Mutant: a full queue does not take the new chunk.
Pushed_DropsNewest(chunk) == IF Len(queue) >= KMaxQueue THEN queue ELSE Append(queue, chunk)

\* The queue with one more chunk; a full one loses its oldest.
Pushed(chunk) == Append(IF Len(queue) >= KMaxQueue THEN Tail(queue) ELSE queue, chunk)

Submit ==
  /\ ~failed
  /\ NextFrame("nudge")
  /\ queue' = Pushed(decoded')
  /\ UNCHANGED <<fill, newest, wake, pumpVars, current>>

\* After a failure it returns at once.
SubmitIgnored ==
  /\ failed
  /\ NextFrame("idle")
  /\ UNCHANGED <<fill, newest, v4Vars>>

\* The write to the wake pipe; if the pipe is full it is readable anyway.
Nudge ==
  /\ rx = "nudge"
  /\ rx' = "idle"
  /\ wake' = TRUE
  /\ UNCHANGED <<fill, decoded, newest, queue, pumpVars, current>>

V4l2Rx == Submit \/ SubmitIgnored \/ Nudge

(***************************************************************************)
(* pump(), while running_.                                                 *)
(***************************************************************************)
\* poll() returns, by the driver, the pipe, a signal or after 50 ms.
PumpPolls ==
  /\ pump = "poll"
  /\ pump' = IF wake THEN "drain" ELSE "drive"
  /\ UNCHANGED <<rxVars, queueVars, cur, failed, output, offered, current>>

PumpDrains ==
  /\ pump = "drain"
  /\ pump' = "drive"
  /\ wake' = FALSE
  /\ UNCHANGED <<rxVars, queue, cur, failed, output, offered, current>>

\* poll() or drive() fails for good.
PumpFails ==
  /\ pump \in {"poll", "drive"}
  /\ pump' = "done"
  /\ failed' = TRUE
  /\ UNCHANGED <<rxVars, queueVars, cur, output, offered, current>>

\* drive() collects the first n chunks of the OUTPUT queue; the newest picture
\* among them is frame, if there is one.
PumpDrives(n, frame) ==
  /\ pump = "drive"
  /\ pump' = "feed"
  /\ n <= Len(output)
  /\ frame = newest \/ \E i \in 1..n : frame = output[i]
  /\ newest' = frame
  /\ output' = SubSeq(output, n + 1, Len(output))
  /\ UNCHANGED <<rx, fill, decoded, queueVars, cur, failed, offered, current>>

PumpTakes ==
  /\ pump = "feed"
  /\ cur = 0
  /\ IF queue = <<>>
       THEN pump' = "poll" /\ UNCHANGED <<queue, cur>>
       ELSE cur' = Head(queue) /\ queue' = Tail(queue) /\ UNCHANGED pump
  /\ UNCHANGED <<rxVars, wake, failed, output, offered, current>>

\* The inner source takes the chunk, or refuses it for good: it is dropped.
PumpSubmits(accepted) ==
  /\ pump = "feed"
  /\ cur # 0
  /\ cur' = 0
  /\ offered' = cur
  /\ accepted => Len(output) < KOutput
  /\ output' = IF accepted THEN Append(output, cur) ELSE output
  /\ UNCHANGED <<rxVars, queueVars, pump, failed, current>>

\* EAGAIN: the chunk is kept until after the next drive().
PumpWaits ==
  /\ pump = "feed"
  /\ cur # 0
  /\ Len(output) = KOutput
  /\ pump' = "poll"
  /\ UNCHANGED <<rxVars, queueVars, cur, failed, output, offered, current>>

PumpDriving == \E n \in 0..KOutput, frame \in 0..MaxFrames : PumpDrives(n, frame)

Pump ==
  \/ PumpPolls
  \/ PumpDrains
  \/ PumpFails
  \/ PumpDriving
  \/ PumpTakes
  \/ \E accepted \in BOOLEAN : PumpSubmits(accepted)
  \/ PumpWaits

\* The destructor clears running_, wakes the pump and joins it.
PumpEnds ==
  /\ pump \in {"drain", "drive", "feed"}
  /\ pump' = "done"
  /\ UNCHANGED <<rxVars, queueVars, cur, failed, output, offered, current>>

(***************************************************************************)
(* The display thread.                                                     *)
(***************************************************************************)
AcquireCapture ==
  /\ newest # 0
  /\ current' = newest
  /\ UNCHANGED <<rxVars, queueVars, pumpVars>>

HasFreshCapture == newest > current
=============================================================================
