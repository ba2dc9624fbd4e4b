---------------------------- MODULE WaylandVideo ----------------------------
(***************************************************************************)
(* The video path of carlinkit-wayland (src/src/main_wayland.cpp): the     *)
(* decode thread of one source, the event loop that presents its frames,   *)
(* and the compositor, which is external.  On the "dmabuf" path the VAAPI  *)
(* source's surfaces go to the compositor as they are (wayland_sink.cpp);  *)
(* on the "shm" path the software source's frames are copied into one of   *)
(* the sink's shared-memory buffers (wayland_shm_sink.cpp).  A buffer that *)
(* was committed belongs to the compositor until it is released.           *)
(* Allocation failures (of proxies, of shared memory) are not modelled.    *)
(***************************************************************************)
EXTENDS SoftwareSource, VaapiSource

CONSTANTS
  Paths,     \* {"dmabuf", "shm"} or a part of it
  ShmSlots,  \* the buffers of WlShmSink, kBufs of them
  MaxAge     \* the compositor asks for the next frame only when it holds no
             \* surface older than its last MaxAge commits

ASSUME PathsOK == Paths \subseteq {"dmabuf", "shm"}
ASSUME MaxAgeOK == MaxAge \in Nat

VARIABLES
  path,          \* which of the two: use_shm_
  owed,          \* on_video has not written video_evt since the last frame
  evt,           \* video_evt is readable
  framePending,  \* frame_pending_: a frame callback is awaited
  rendering,     \* RenderIfReady(): "no", about to "take" a frame, or to
                 \* "commit" the frame it took
  lastShmSeq,    \* last_shm_seq_
  age,           \* age[s]: 0 when surface s is released, else 1 more than the
                 \* number of commits since it was committed
  shmHeld,       \* the shm buffers that are not released
  shown,         \* history: the frame committed last
  ended          \* the event loop has returned

loopVars == <<evt, framePending, rendering, lastShmSeq, age, shmHeld, shown>>
vars == <<rxVars, swVars, vaVars, loopVars, path, owed, ended>>

TypeOK ==
  /\ path \in Paths
  /\ rx \in {"idle", "fill"}
  /\ fill \in Surfaces \cup {None}
  /\ decoded \in 0..MaxFrames
  /\ {newest, shown, lastShmSeq} \subseteq 0..MaxFrames
  /\ {owed, evt, framePending, ended} \subseteq BOOLEAN
  /\ rendering \in {"no", "take", "commit"}
  /\ age \in [Surfaces -> 0..(MaxAge + 1)]
  /\ shmHeld \subseteq ShmSlots
  /\ SoftwareTypeOK
  /\ VaapiTypeOK

Init ==
  /\ path \in Paths
  /\ owed = FALSE
  /\ evt = FALSE
  /\ framePending = FALSE
  /\ rendering = "no"
  /\ lastShmSeq = 0
  /\ age = [s \in Surfaces |-> 0]
  /\ shmHeld = {}
  /\ shown = 0
  /\ ended = FALSE
  /\ DecodeInit
  /\ SoftwareInit
  /\ VaapiInit

(***************************************************************************)
(* The decode thread.                                                      *)
(***************************************************************************)
Decode ==
  /\ \/ path = "shm" /\ IngestRx /\ UNCHANGED vaVars
     \/ path = "dmabuf" /\ VaapiRx /\ UNCHANGED swVars
  /\ owed' = TRUE
  /\ UNCHANGED <<path, ended, loopVars>>

\* on_video wakes the event loop when submit_bitstream() has returned.
Wake ==
  /\ rx = "idle"
  /\ owed
  /\ owed' = FALSE
  /\ evt' = TRUE
  /\ UNCHANGED <<rxVars, swVars, vaVars, path, ended, framePending, rendering,
                 lastShmSeq, age, shmHeld, shown>>

(***************************************************************************)
(* The event loop.  Each handler ends in RenderIfReady(), whose first test *)
(* is part of the handler here.                                            *)
(***************************************************************************)
Fresh == IF path = "shm" THEN seq # lastShmSeq ELSE HasFreshSurface

Handles == rendering = "no" /\ ~ended

RenderIf(ready) == rendering' = IF ready THEN "take" ELSE "no"

OnVideoEvent ==
  /\ Handles
  /\ evt
  /\ evt' = FALSE
  /\ RenderIf(~framePending /\ Fresh)
  /\ UNCHANGED <<framePending, lastShmSeq, age, shmHeld, shown>>

\* The frame callback: the compositor is ready for another frame.
OnFrameReady ==
  /\ Handles
  /\ framePending
  /\ \A s \in Surfaces : age[s] <= MaxAge
  /\ framePending' = FALSE
  /\ RenderIf(Fresh)
  /\ UNCHANGED <<evt, lastShmSeq, age, shmHeld, shown>>

\* WlShmSink's buffer b is released.
OnShmRelease(b) ==
  /\ Handles
  /\ b \in shmHeld
  /\ shmHeld' = shmHeld \ {b}
  /\ RenderIf(~framePending /\ Fresh)
  /\ UNCHANGED <<evt, framePending, lastShmSeq, age, shown>>

\* WaylandSink's buffer for surface s is released: release_native_frame() does
\* nothing in the VAAPI source.
OnSurfaceRelease(s) ==
  /\ Handles
  /\ age[s] > 0
  /\ age' = [age EXCEPT ![s] = 0]
  /\ UNCHANGED <<evt, framePending, rendering, lastShmSeq, shmHeld, shown>>

Committed(frame) ==
  /\ framePending' = TRUE
  /\ shown' = frame

NotCommitted == UNCHANGED <<framePending, shown>>

\* Borrows or takes the newest frame.
TakeFrame ==
  /\ rendering = "take"
  /\ rendering' = "commit"
  /\ \/ path = "shm" /\ AcquireDecodedFrame /\ UNCHANGED vaVars
     \/ path = "dmabuf" /\ UNCHANGED swVars /\ \E s \in Surfaces : AcquireSurface(s)
  /\ UNCHANGED <<evt, framePending, lastShmSeq, age, shmHeld, shown>>

\* The pending frame was unusable and there is no other: nothing to present.
TakeNothing ==
  /\ rendering = "take"
  /\ rendering' = "no"
  /\ path = "dmabuf"
  /\ AcquireNoSurface
  /\ UNCHANGED <<swVars, evt, framePending, lastShmSeq, age, shmHeld, shown>>

\* Mutant: the frame counts as presented even if no buffer was free.
PresentShm_AlwaysCounts ==
  /\ rendering = "commit"
  /\ path = "shm"
  /\ rendering' = "no"
  /\ lastShmSeq' = borrowed.seq
  /\ \/ \E b \in ShmSlots, kept \in {shmHeld, {}} :
          /\ b \notin kept /\ \A c \in ShmSlots \ kept : b <= c
          /\ shmHeld' = kept \cup {b}
          /\ Committed(borrowed.frame)
     \/ shmHeld = ShmSlots /\ NotCommitted /\ UNCHANGED shmHeld
  /\ UNCHANGED <<evt, age>>

\* Copies the borrowed frame into a free buffer and commits it; without a free
\* buffer the sequence number stays, so that the next release tries again.  A
\* frame of another size makes a new pool and destroys the old buffers.
PresentShm ==
  /\ rendering = "commit"
  /\ path = "shm"
  /\ rendering' = "no"
  /\ \/ \E b \in ShmSlots, kept \in {shmHeld, {}} :
          /\ b \notin kept /\ \A c \in ShmSlots \ kept : b <= c
          /\ shmHeld' = kept \cup {b}
          /\ lastShmSeq' = borrowed.seq
          /\ Committed(borrowed.frame)
     \/ shmHeld = ShmSlots /\ NotCommitted /\ UNCHANGED <<shmHeld, lastShmSeq>>
  /\ UNCHANGED <<evt, age>>

\* Commits the surface taken, unless the compositor still holds the buffer made
\* for it: then the frame is skipped.
PresentSurface ==
  /\ rendering = "commit"
  /\ path = "dmabuf"
  /\ rendering' = "no"
  /\ IF age[currentSurf] > 0
       THEN NotCommitted /\ UNCHANGED age
       ELSE /\ Committed(surface[currentSurf])
            /\ age' = [s \in Surfaces |-> IF s = currentSurf THEN 1
                                          ELSE IF age[s] > 0 THEN age[s] + 1 ELSE 0]
  /\ UNCHANGED <<evt, lastShmSeq, shmHeld>>

Quit ==
  /\ Handles
  /\ ended' = TRUE
  /\ UNCHANGED loopVars

Releases ==
  \/ \E b \in ShmSlots : OnShmRelease(b)
  \/ \E s \in Surfaces : OnSurfaceRelease(s)

\* A step of the event loop that touches neither the source nor its thread.
Loop(A) == A /\ UNCHANGED <<rxVars, swVars, vaVars, path, owed, ended>>

Present ==
  \/ TakeFrame /\ UNCHANGED <<path, owed, ended>>
  \/ TakeNothing /\ UNCHANGED <<path, owed, ended>>
  \/ Loop(PresentShm)
  \/ Loop(PresentSurface)

Over == ended /\ UNCHANGED vars

Next ==
  \/ Decode
  \/ Wake
  \/ Loop(OnVideoEvent)
  \/ Loop(OnFrameReady)
  \/ Loop(Releases)
  \/ Present
  \/ Quit /\ UNCHANGED <<rxVars, swVars, vaVars, path, owed>>
  \/ Over

Spec == Init /\ [][Next]_vars

\* Both threads run; the compositor asks for frames (the surface is visible)
\* and releases what it has replaced.  It may keep what it shows for ever.
Fairness ==
  /\ WF_vars(Decode /\ rx # "idle")
  /\ WF_vars(Wake)
  /\ WF_vars(Loop(OnVideoEvent))
  /\ WF_vars(Loop(OnFrameReady))
  /\ WF_vars(Present)
  /\ \A s \in Surfaces : WF_vars(Loop(age[s] > 1 /\ OnSurfaceRelease(s)))
  /\ WF_vars(Loop(Cardinality(shmHeld) > 1 /\ \E b \in ShmSlots : OnShmRelease(b)))

FairSpec == Spec /\ Fairness

-----------------------------------------------------------------------------
\* "the decoder keeps the slot pinned" (wayland_sink.cpp:89): a surface that the
\* compositor may be reading, or that the next acquire may hand out, is not
\* written by the decoder.
HeldSurfacesAreWhole ==
  \A s \in Surfaces :
    age[s] > 0 \/ s \in {pendingSurf, currentSurf} => s # fill /\ surface[s] # 0

Taken == IF path = "shm" THEN borrowed.frame ELSE FrameIn(currentSurf)

Source == INSTANCE FrameSource WITH taken <- Taken

\* The loop keeps the promise of a frame source: the newest frame wins, none
\* comes back, and the last frame before a pause gets on the screen although
\* wake-ups, frame callbacks and releases come in any order.
KeepsSource == Source!SourceSafety /\ Source!SourceLiveness
=============================================================================
