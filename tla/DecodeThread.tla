---------------------------- MODULE DecodeThread ----------------------------
(***************************************************************************)
(* The decode side of every video source: submit_bitstream() runs on the   *)
(* session's event thread, the codec yields frames one at a time, and each *)
(* is written into one buffer and published.  Where the buffers come from  *)
(* and how a frame is published is up to the source.                       *)
(***************************************************************************)
EXTENDS Naturals

CONSTANTS
  MaxFrames,  \* bound: the frames the codec yields
  None        \* no buffer

ASSUME MaxFramesOK == MaxFrames \in Nat

VARIABLES
  rx,       \* the event thread: "idle" (outside, or between frames), "pool",
            \* "pick" a buffer, or "fill" it
  fill,     \* the buffer being written, or None
  decoded,  \* how many frames the codec has yielded; a frame's number
  newest    \* history: the newest frame that was published

rxVars == <<rx, fill, decoded, newest>>

Frames == 1..MaxFrames

DecodeInit ==
  /\ rx = "idle"
  /\ fill = None
  /\ decoded = 0
  /\ newest = 0

\* avcodec_receive_frame() yields a frame.
NextFrame(place) ==
  /\ rx = "idle"
  /\ decoded < MaxFrames
  /\ decoded' = decoded + 1
  /\ rx' = place

\* The frame is given up, its buffer (if any) left as it is.
GiveUp ==
  /\ rx' = "idle"
  /\ fill' = None
  /\ UNCHANGED <<decoded, newest>>

Published ==
  /\ rx' = "idle"
  /\ fill' = None
  /\ newest' = decoded
  /\ UNCHANGED decoded
=============================================================================
