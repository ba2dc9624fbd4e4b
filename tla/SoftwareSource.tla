--------------------------- MODULE SoftwareSource ---------------------------
(***************************************************************************)
(* src/src/software_decoder_source.cpp: frames decoded on the CPU.  On its *)
(* dumb-buffer lane each frame is converted into one of KBufs kernel       *)
(* buffers that the scene scans out; on its GPU-ingest lane the newest raw *)
(* frame is kept for a GPU stage (GlRotateSource) or WlShmSink to borrow.  *)
(* The decode thread and the display thread share the pool under m_, but   *)
(* the buffer is picked, filled and published under three separate holds   *)
(* (none during the fill).                                                 *)
(***************************************************************************)
EXTENDS DecodeThread, FiniteSets

CONSTANT KBufs  \* kBufs, 4 in the code

ASSUME KBufsOK == KBufs \in Nat \ {0}

VARIABLES
  pending,    \* pending_: the newest filled buffer, or None
  displayed,  \* displayed_: the last buffer handed to the scene, or None
  inFlight,   \* the buffers whose in_flight is set
  content,    \* content[b]: the frame in buffer b, 0 while it is incomplete
  poolReady,  \* pool_ready_
  latest,     \* the frame in latest_gpu_frame_, 0 for none
  seq,        \* gpu_frame_seq_
  borrowed    \* [frame, seq] the display thread borrowed last

poolVars == <<pending, displayed, inFlight, content, poolReady>>
gpuVars == <<latest, seq, borrowed>>
swVars == <<poolVars, gpuVars>>

\* Mutant: three buffers, as the comment at software_decoder_source.cpp:226 says.
Slots_Three == 0..2

Slots == 0..(KBufs - 1)

ASSUME NoneIsNoSlot == None \notin Slots

SoftwareTypeOK ==
  /\ pending \in Slots \cup {None}
  /\ displayed \in Slots \cup {None}
  /\ inFlight \subseteq Slots
  /\ content \in [Slots -> 0..MaxFrames]
  /\ poolReady \in BOOLEAN
  /\ latest \in 0..MaxFrames
  /\ seq \in 0..MaxFrames
  /\ borrowed \in [frame : 0..MaxFrames, seq : 0..MaxFrames]

SoftwareInit ==
  /\ pending = None
  /\ displayed = None
  /\ inFlight = {}
  /\ content = [b \in Slots |-> 0]
  /\ poolReady = FALSE
  /\ latest = 0
  /\ seq = 0
  /\ borrowed = [frame |-> 0, seq |-> 0]

(***************************************************************************)
(* The decode thread, dumb-buffer lane: on_frame().                        *)
(***************************************************************************)
\* A frame without size or of odd size is dropped, and so is one of another
\* size once the pool exists; any other goes on to ensure_pool().
SoftwareFrame == NextFrame("pool") /\ UNCHANGED <<fill, newest, swVars>>

SoftwareDropFrame == NextFrame("idle") /\ UNCHANGED <<fill, newest, swVars>>

\* ensure_pool(): makes the buffers the first time.
EnsurePool ==
  /\ rx = "pool"
  /\ rx' = "pick"
  /\ poolReady' = TRUE
  /\ UNCHANGED <<fill, decoded, newest, pending, displayed, inFlight, content, gpuVars>>

\* A buffer cannot be made: the frame is dropped, the next one tries again.
PoolFails ==
  /\ rx = "pool"
  /\ ~poolReady
  /\ GiveUp
  /\ UNCHANGED swVars

\* No converter: sws_getCachedContext() fails.
NoConverter ==
  /\ rx = "pick"
  /\ GiveUp
  /\ UNCHANGED swVars

\* Mutant: the buffer handed out last counts as free once it is released.
FreeSlots_NotDisplayed == {b \in Slots : b # pending /\ b \notin inFlight}

\* The buffers pick_free_slot_locked() may return.
FreeSlots == {b \in Slots : b # displayed /\ b # pending /\ b \notin inFlight}

\* Picks the lowest free buffer and starts to write it; without one the frame
\* is dropped.
PickSlot ==
  /\ rx = "pick"
  /\ IF FreeSlots = {}
       THEN GiveUp /\ UNCHANGED content
       ELSE /\ rx' = "fill"
            /\ fill' \in FreeSlots
            /\ \A c \in FreeSlots : fill' <= c
            /\ content' = [content EXCEPT ![fill'] = 0]
            /\ UNCHANGED <<decoded, newest>>
  /\ UNCHANGED <<pending, displayed, inFlight, poolReady, gpuVars>>

\* The buffer is complete and replaces the pending one.
PublishSlot ==
  /\ rx = "fill"
  /\ fill \in Slots
  /\ content' = [content EXCEPT ![fill] = decoded]
  /\ pending' = fill
  /\ Published
  /\ UNCHANGED <<displayed, inFlight, poolReady, gpuVars>>

DumbBufferRx ==
  \/ SoftwareFrame
  \/ SoftwareDropFrame
  \/ EnsurePool
  \/ PoolFails
  \/ NoConverter
  \/ PickSlot
  \/ PublishSlot

(***************************************************************************)
(* The display thread, dumb-buffer lane.                                   *)
(***************************************************************************)
Promoted == IF pending # None THEN pending ELSE displayed

\* acquire(): hands out buffer b.
Acquire(b) ==
  /\ Promoted # None
  /\ b = Promoted
  /\ displayed' = b
  /\ pending' = None
  /\ inFlight' = inFlight \cup {b}
  /\ UNCHANGED <<rxVars, content, poolReady, gpuVars>>

\* release(): buffer b is off the screen.
Release(b) ==
  /\ inFlight' = inFlight \ {b}
  /\ UNCHANGED <<rxVars, pending, displayed, content, poolReady, gpuVars>>

HasFreshContent == pending # None

(***************************************************************************)
(* The GPU-ingest lane.                                                    *)
(***************************************************************************)
\* on_frame(): the newest frame and its sequence number change together.
IngestFrame ==
  /\ rx = "idle"
  /\ decoded < MaxFrames
  /\ decoded' = decoded + 1
  /\ newest' = decoded'
  /\ latest' = decoded'
  /\ seq' = seq + 1
  /\ UNCHANGED <<rx, fill, poolVars, borrowed>>

IngestRx ==
  \/ IngestFrame
  \/ SoftwareDropFrame

\* Mutant: acquiring a frame counts it once more.
AcquireDecodedFrame_Counts ==
  /\ latest # 0
  /\ borrowed' = [frame |-> latest, seq |-> seq]
  /\ seq' = seq + 1
  /\ UNCHANGED <<rxVars, poolVars, latest>>

\* acquire_decoded_frame(): a reference to the newest frame, with its number.
AcquireDecodedFrame ==
  /\ latest # 0
  /\ borrowed' = [frame |-> latest, seq |-> seq]
  /\ UNCHANGED <<rxVars, poolVars, latest, seq>>
=============================================================================
