----------------------------- MODULE KmsVideo -----------------------------
(***************************************************************************)
(* The video path of carlinkit-kms: the decode thread of one source and    *)
(* the display thread that draws from it.  The source is chosen once: the  *)
(* software source on dumb buffers ("software"), the software source       *)
(* behind GlRotateSource (src/src/gl_rotate_source.cpp, "gpu"), the VAAPI  *)
(* source ("vaapi") or the V4L2 adapter ("v4l2").  The scanout buffers of  *)
(* GlRotateSource and the capture buffers of V4L2 are managed by drm-cxx   *)
(* and stand as one buffer, OtherBuffer.                                   *)
(***************************************************************************)
EXTENDS SoftwareSource, VaapiSource, V4l2Source, KmsDisplay

CONSTANTS Backends, OtherBuffer

ASSUME BackendsOK == Backends \subseteq {"software", "gpu", "vaapi", "v4l2"}
ASSUME BuffersDistinct ==
  /\ OtherBuffer \notin Slots \cup Surfaces \cup {None}
  /\ Slots \cap Surfaces = {}

VARIABLES
  backend,  \* the source in use
  drawing,  \* GlRotateSource is in render_frame(), with a borrowed frame
  drawn,    \* the frame in its surface, 0 before the first
  lastSeq   \* last_seq_

glVars == <<drawing, drawn, lastSeq>>
vars == <<rxVars, swVars, vaVars, v4Vars, kmsVars, glVars, backend>>

Buffers == Slots \cup Surfaces \cup {OtherBuffer}

TypeOK ==
  /\ backend \in Backends
  /\ rx \in {"idle", "pool", "pick", "fill", "nudge"}
  /\ fill \in Buffers \cup {None}
  /\ decoded \in 0..MaxFrames
  /\ newest \in 0..MaxFrames
  /\ drawing \in BOOLEAN
  /\ drawn \in 0..MaxFrames
  /\ lastSeq \in 0..MaxFrames
  /\ SoftwareTypeOK
  /\ VaapiTypeOK
  /\ V4l2TypeOK
  /\ KmsTypeOK(Buffers)

Init ==
  /\ backend \in Backends
  /\ drawing = FALSE
  /\ drawn = 0
  /\ lastSeq = 0
  /\ DecodeInit
  /\ SoftwareInit
  /\ VaapiInit
  /\ V4l2Init
  /\ KmsInit

\* The caller of acquire() gets buffer b.
Takes(b) == PrerollTakes(b) \/ CommitTakes(b)

\* What the display thread does without the source, and the kernel.
DisplayAlone == CommitFails \/ Flip \/ FlipHandled \/ Quit

(***************************************************************************)
(* The software source on dumb buffers.                                    *)
(***************************************************************************)
SoftwareDisplay ==
  \/ \E b \in Slots : Acquire(b) /\ Takes(b)
  \/ PrerollGivesBack /\ Release(got)
  \/ SceneReleases /\ Release(prev)
  \/ /\ RenderStarts(HasFreshContent) \/ CommitQueued(content[got]) \/ DisplayAlone
     /\ UNCHANGED <<rxVars, swVars>>

SoftwareNext ==
  /\ backend = "software"
  /\ \/ DumbBufferRx /\ UNCHANGED kmsVars
     \/ SoftwareDisplay
  /\ UNCHANGED <<vaVars, v4Vars, glVars, backend>>

(***************************************************************************)
(* The software source behind GlRotateSource.                              *)
(***************************************************************************)
\* acquire() calls render_frame(), which borrows the newest frame.
GlBorrow ==
  /\ disp \in {"preroll", "commit"}
  /\ ~drawing
  /\ drawing' = TRUE
  /\ AcquireDecodedFrame
  /\ UNCHANGED <<kmsVars, drawn, lastSeq>>

\* Mutant: the number is read when the drawing is done.
GlSwap_SeqNow ==
  /\ drawing
  /\ drawing' = FALSE
  /\ drawn' = borrowed.frame
  /\ lastSeq' = seq
  /\ Takes(OtherBuffer)
  /\ UNCHANGED <<rxVars, swVars>>

\* It is uploaded, drawn and swapped in.
GlSwap ==
  /\ drawing
  /\ drawing' = FALSE
  /\ drawn' = borrowed.frame
  /\ lastSeq' = borrowed.seq
  /\ Takes(OtherBuffer)
  /\ UNCHANGED <<rxVars, swVars>>

\* The context or the swap fails: the surface keeps what it had, if anything.
GlFails ==
  /\ drawing
  /\ drawing' = FALSE
  /\ IF drawn # 0 THEN Takes(OtherBuffer) ELSE UNCHANGED kmsVars
  /\ UNCHANGED <<rxVars, swVars, drawn, lastSeq>>

GlDisplay ==
  \/ GlBorrow
  \/ GlSwap
  \/ GlFails
  \/ /\ \/ PrerollGivesBack
        \/ SceneReleases
        \/ RenderStarts(seq > lastSeq)
        \/ CommitQueued(drawn)
        \/ DisplayAlone /\ ~drawing
     /\ UNCHANGED <<rxVars, swVars, glVars>>

GlNext ==
  /\ backend = "gpu"
  /\ \/ IngestRx /\ UNCHANGED <<kmsVars, glVars>>
     \/ GlDisplay
  /\ UNCHANGED <<vaVars, v4Vars, backend>>

(***************************************************************************)
(* The VAAPI source.                                                       *)
(***************************************************************************)
VaapiDisplay ==
  \/ \E s \in Surfaces : AcquireSurface(s) /\ Takes(s)
  \/ disp \in {"preroll", "commit"} /\ AcquireNoSurface /\ UNCHANGED kmsVars
  \/ /\ \/ PrerollGivesBack
        \/ SceneReleases
        \/ RenderStarts(HasFreshSurface)
        \/ CommitQueued(surface[got])
        \/ DisplayAlone
     /\ UNCHANGED <<rxVars, vaVars>>

VaapiNext ==
  /\ backend = "vaapi"
  /\ \/ VaapiRx /\ UNCHANGED kmsVars
     \/ VaapiDisplay
  /\ UNCHANGED <<swVars, v4Vars, glVars, backend>>

(***************************************************************************)
(* The V4L2 adapter.                                                       *)
(***************************************************************************)
V4l2Display ==
  \/ AcquireCapture /\ Takes(OtherBuffer)
  \/ /\ \/ PrerollGivesBack
        \/ SceneReleases
        \/ RenderStarts(HasFreshCapture)
        \/ CommitQueued(current)
        \/ DisplayAlone
     /\ UNCHANGED <<rxVars, v4Vars>>

V4l2Next ==
  /\ backend = "v4l2"
  /\ \/ (V4l2Rx \/ Pump) /\ UNCHANGED kmsVars
     \/ V4l2Display
     \/ disp = "done" /\ PumpEnds /\ UNCHANGED kmsVars
  /\ UNCHANGED <<swVars, vaVars, glVars, backend>>

Over == disp = "done" /\ UNCHANGED vars

Next == SoftwareNext \/ GlNext \/ VaapiNext \/ V4l2Next \/ Over

Spec == Init /\ [][Next]_vars

\* The pump runs, and the driver finishes what it has been given.
PumpMoves(A) == backend = "v4l2" /\ A /\ UNCHANGED <<swVars, vaVars, glVars, kmsVars, backend>>
PumpFairness ==
  /\ WF_vars(PumpMoves(Pump /\ failed' = failed))
  /\ SF_vars(PumpMoves(\E frame \in 0..MaxFrames : PumpDrives(Len(output), frame)))

GlMoves(A) == backend = "gpu" /\ A /\ UNCHANGED <<vaVars, v4Vars, backend>>

\* Both threads run, the kernel flips what it has queued, and the GPU does not
\* fail for ever.  Nobody need quit, and frames need not come.
RxWorks == rx # "idle" /\ Next /\ rx' # rx
DisplayWorks == Next /\ disp' # disp /\ ~Quit
Fairness ==
  /\ WF_vars(RxWorks)
  /\ WF_vars(DisplayWorks)
  /\ WF_vars(Next /\ (Flip \/ FlipHandled \/ SceneReleases))
  /\ WF_vars(GlMoves(GlBorrow))
  /\ SF_vars(GlMoves(GlSwap))
  /\ PumpFairness

FairSpec == Spec /\ Fairness

-----------------------------------------------------------------------------
\* A buffer that the kernel scans out or is about to, that the scene holds, or
\* that the next acquire() may hand out, holds a whole frame: the decode thread
\* never writes into it, whatever the threads do between pick and publish.
HeldBuffers == {got, queued, onScreen, prev, pending, displayed, pendingSurf, currentSurf}
HeldFramesAreWhole ==
  /\ \A b \in HeldBuffers \cap Slots : content[b] # 0
  /\ \A s \in HeldBuffers \cap Surfaces : surface[s] # 0
  /\ fill \notin HeldBuffers \ {None}

\* "kBufs is sized so one is always free" (software_decoder_source.cpp:385): the
\* decode thread never has to drop a frame for want of a buffer.
SlotAlwaysFree == rx = "pick" => FreeSlots # {}

(***************************************************************************)
(* Refinement.                                                             *)
(***************************************************************************)
Taken == CASE backend = "software" -> IF displayed = None THEN 0 ELSE content[displayed]
           [] backend = "gpu"      -> borrowed.frame
           [] backend = "vaapi"    -> FrameIn(currentSurf)
           [] backend = "v4l2"     -> current

Source == INSTANCE FrameSource WITH taken <- Taken, ended <- disp = "done"

\* Each backend keeps the promise of a frame source: the newest frame wins, no
\* frame comes back, and the last frame before a pause gets on the screen.
KeepsSource == Source!SourceSafety /\ Source!SourceLiveness

(***************************************************************************)
(* The chunks of the V4L2 adapter.  Whatever the queue has to drop, the    *)
(* chunk of the last frame before a pause gets to the decoder: the bound   *)
(* costs the oldest one, and a chunk held back over EAGAIN keeps no newer  *)
(* one from following it.                                                  *)
(***************************************************************************)
NewestChunkFed ==
  \A n \in Frames :
    (rx = "nudge" /\ decoded = n) ~> (offered >= n \/ failed \/ disp = "done")
=============================================================================
