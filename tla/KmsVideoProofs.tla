--------------------------- MODULE KmsVideoProofs ---------------------------
(***************************************************************************)
(* Proofs about the video path of carlinkit-kms, for any number of frames, *)
(* buffers and queue places: its invariant, one part for each backend, and *)
(* that each backend's steps are steps of FrameSource.                     *)
(***************************************************************************)
EXTENDS KmsVideo, SourceProofs

(***************************************************************************)
(* The invariant.                                                          *)
(***************************************************************************)
\* At most two buffers are with the kernel and the scene, and which of got,
\* queued, onScreen and prev they are follows from where the thread is.
DisplayInv ==
  /\ KmsTypeOK(Buffers)
  /\ disp \in {"preroll", "peeked", "commit", "submit"} =>
       queued = None /\ prev = None /\ ~flipPending
  /\ disp \in {"preroll", "peeked"} => onScreen = None
  /\ disp = "preroll" => got = None
  /\ disp \in {"peeked", "submit"} => got # None
  /\ disp = "commit" => onScreen = got
  /\ queued # None => queued = got /\ prev = None
  /\ disp = "loop" => flipPending \/ queued = None
  /\ disp = "loop" /\ queued = None => onScreen = got
  /\ queued = None => onScreen = got \/ prev = None

\* What the kernel and the scene have is in flight, and nothing else is; a
\* commit that is not the first takes a new buffer, so that what is released is
\* not on the screen.
SoftwareInv ==
  /\ PoolInv
  /\ pendingSurf = None /\ currentSurf = None
  /\ {got, queued, onScreen, prev} \subseteq Slots \cup {None}
  /\ got \in {None, displayed}
  /\ {queued, onScreen, prev} \subseteq inFlight \cup {None}
  /\ inFlight \subseteq {got, queued, onScreen, prev}
  /\ disp \in {"peeked", "submit"} => got \in inFlight
  /\ disp = "commit" => onScreen = None \/ pending # None
  /\ disp = "submit" => onScreen # got
  /\ queued # None => queued # onScreen
  /\ prev # None => prev # onScreen

\* The kernel and the scene have the two surfaces taken last, at most.
VaapiPathInv ==
  /\ VaapiInv
  /\ pending = None /\ displayed = None /\ inFlight = {}
  /\ {got, queued, onScreen, prev} \subseteq Surfaces \cup {None}
  /\ got \in {None, currentSurf}
  /\ \A s \in {queued, onScreen, prev} : s # None => Recent(s, 2)

GlInv ==
  /\ IngestInv
  /\ pending = None /\ displayed = None /\ inFlight = {}
  /\ pendingSurf = None /\ currentSurf = None
  /\ {got, queued, onScreen, prev} \subseteq {OtherBuffer, None}
  /\ drawing => disp \in {"preroll", "commit"}
  /\ drawn <= borrowed.frame
  /\ shown <= drawn

\* The chunks on their way are in order: what is queued is newer than what the
\* pump holds, that than what the driver has, and all are newer than the
\* newest picture.
ChunksInOrder ==
  /\ \A i \in 1..Len(output) : newest < output[i] /\ output[i] <= decoded
  /\ \A i, j \in 1..Len(output) : i < j => output[i] < output[j]
  /\ cur # 0 => /\ newest < cur /\ cur <= decoded
                /\ \A i \in 1..Len(output) : output[i] < cur
  /\ \A i \in 1..Len(queue) : /\ newest < queue[i] /\ queue[i] <= decoded /\ cur < queue[i]
                              /\ \A j \in 1..Len(output) : output[j] < queue[i]
  /\ \A i, j \in 1..Len(queue) : i < j => queue[i] < queue[j]

V4l2Inv ==
  /\ rx \in {"idle", "nudge"} /\ fill = None
  /\ pending = None /\ displayed = None /\ inFlight = {}
  /\ pendingSurf = None /\ currentSurf = None
  /\ {got, queued, onScreen, prev} \subseteq {OtherBuffer, None}
  /\ current <= newest
  /\ ChunksInOrder

IInv ==
  /\ TypeOK
  /\ CountersOK
  /\ DisplayInv
  /\ shown <= Taken
  /\ backend = "software" => SoftwareInv
  /\ backend = "gpu" => GlInv
  /\ backend = "vaapi" => VaapiPathInv
  /\ backend = "v4l2" => V4l2Inv

(***************************************************************************)
(* The display thread and the kernel, whatever the source.                 *)
(***************************************************************************)
LEMMA BufferIsOne == None \notin Buffers
BY NoneIsNoSlot, NoneIsNoSurface, BuffersDistinct DEF Buffers

LEMMA DisplayStep ==
  ASSUME DisplayInv, NEW b \in Buffers, NEW frame \in 0..MaxFrames, NEW fresh,
         \/ PrerollTakes(b) \/ CommitTakes(b) \/ PrerollGivesBack
         \/ CommitQueued(frame) \/ RenderStarts(fresh) \/ SceneReleases \/ DisplayAlone
  PROVE  DisplayInv'
<1> USE BufferIsOne DEF DisplayInv, KmsTypeOK, Places
<1>1. CASE PrerollTakes(b)
  BY <1>1 DEF PrerollTakes
<1>2. CASE CommitTakes(b)
  BY <1>2 DEF CommitTakes
<1>3. CASE PrerollGivesBack
  BY <1>3 DEF PrerollGivesBack
<1>4. CASE CommitQueued(frame)
  BY <1>4 DEF CommitQueued
<1>5. CASE RenderStarts(fresh)
  BY <1>5 DEF RenderStarts
<1>6. CASE SceneReleases
  BY <1>6 DEF SceneReleases
<1>7. CASE CommitFails
  BY <1>7 DEF CommitFails
<1>8. CASE Flip
  BY <1>8 DEF Flip
<1>9. CASE FlipHandled
  BY <1>9 DEF FlipHandled
<1>10. CASE Quit
  BY <1>10 DEF Quit
<1> QED
  BY <1>1, <1>2, <1>3, <1>4, <1>5, <1>6, <1>7, <1>8, <1>9, <1>10 DEF DisplayAlone

(***************************************************************************)
(* The steps of FrameSource, by what they do.                              *)
(***************************************************************************)
Refines == [Source!SourceNext]_(Source!fvars)

EndedSame == (disp' = "done") <=> (disp = "done")

LEMMA RefinesIf ==
  ASSUME \/ Delivers /\ Taken' = Taken /\ shown' = shown /\ EndedSame
         \/ newest' = newest /\ Taken' \in {Taken, newest} /\ shown' = shown /\ EndedSame
         \/ newest' \in {newest, Taken} /\ Taken' = Taken /\ shown' = shown /\ EndedSame
         \/ /\ newest' = newest /\ Taken' = Taken /\ EndedSame
            /\ shown' = shown \/ (shown' > shown /\ shown' <= Taken)
         \/ newest' = newest /\ Taken' = Taken /\ shown' = shown /\ disp' = "done"
  PROVE  Refines
<1> USE DEF Refines, EndedSame, Delivers, Source!SourceNext, Source!fvars
<1>1. (newest' \in Frames /\ newest' > newest) /\ Taken' = Taken /\ shown' = shown /\ EndedSame
      => Source!Deliver
  BY DEF Source!Deliver
<1>2. newest' = newest /\ Taken' = newest /\ shown' = shown /\ EndedSame => Source!Take
  BY DEF Source!Take
<1>3. newest' = Taken /\ Taken' = Taken /\ shown' = shown /\ EndedSame => Source!Withdraw
  BY DEF Source!Withdraw
<1>4. newest' = newest /\ Taken' = Taken /\ EndedSame /\ shown' > shown /\ shown' <= Taken
      => Source!Show
  BY DEF Source!Show
<1>5. newest' = newest /\ Taken' = Taken /\ shown' = shown /\ disp' = "done" => Source!End
  BY DEF Source!End
<1> QED
  BY <1>1, <1>2, <1>3, <1>4, <1>5

(***************************************************************************)
(* The software source on dumb buffers.                                    *)
(***************************************************************************)
LEMMA SoftwareTaken == backend = "software" => Taken = SlotTaken
BY DEF Taken, SlotTaken

LEMMA SlotTakenType ==
  ASSUME PoolInv, CountersOK
  PROVE  SlotTaken \in 0..newest /\ newest \in Nat
BY MaxFramesOK DEF PoolInv, CountersOK, SoftwareTypeOK, SlotTaken

\* Only the decode thread moves.
LEMMA SoftwareRxStep ==
  ASSUME IInv, backend = "software", DumbBufferRx, UNCHANGED kmsVars,
         UNCHANGED <<vaVars, v4Vars, glVars, backend>>
  PROVE  CountersOK' /\ DisplayInv' /\ SoftwareInv' /\ (shown <= Taken)' /\ Refines
<1> USE DEF SoftwareInv
<1>0. SoftwareInv /\ CountersOK /\ DisplayInv /\ shown <= SlotTaken
  BY SoftwareTaken DEF IInv
<1>1. /\ PoolInv' /\ CountersOK' /\ Delivers
      /\ SlotTaken' = SlotTaken
      /\ pending # None => pending' # None
      /\ UNCHANGED <<displayed, inFlight, gpuVars>>
  BY <1>0, PoolRxStep
<1>2. UNCHANGED <<disp, flipPending, got, queued, onScreen, prev, shown, backend,
                 pendingSurf, currentSurf>>
  BY DEF kmsVars, vaVars
<1>3. DisplayInv'
  BY <1>0, <1>2 DEF DisplayInv, KmsTypeOK, Buffers
<1>4. SoftwareInv'
  BY <1>0, <1>1, <1>2
<1>5. Taken' = SlotTaken' /\ Taken = SlotTaken
  BY <1>2, SoftwareTaken DEF Taken, SlotTaken
<1>6. (shown <= Taken)'
  BY <1>0, <1>1, <1>2, <1>5
<1>7. Refines
  BY <1>1, <1>2, <1>5, RefinesIf DEF EndedSame
<1> QED
  BY <1>1, <1>3, <1>4, <1>6, <1>7

LEMMA SoftwareDisplayStep ==
  ASSUME IInv, backend = "software", SoftwareDisplay,
         UNCHANGED <<vaVars, v4Vars, glVars, backend>>
  PROVE  CountersOK' /\ DisplayInv' /\ SoftwareInv' /\ (shown <= Taken)' /\ Refines
<1> USE DEF SoftwareInv
<1>0. SoftwareInv /\ CountersOK /\ DisplayInv /\ shown <= SlotTaken
  BY SoftwareTaken DEF IInv
<1>1. /\ UNCHANGED <<pendingSurf, currentSurf>>
      /\ Taken = SlotTaken /\ Taken' = SlotTaken'
  BY SoftwareTaken DEF vaVars, Taken, SlotTaken
<1>2. SlotTaken \in 0..newest /\ newest \in Nat /\ shown \in Nat
  BY <1>0, SlotTakenType, MaxFramesOK DEF DisplayInv, KmsTypeOK
<1>3. \A b \in Slots : b \in Buffers /\ b # None
  BY NoneIsNoSlot DEF Buffers
<1>4. 0 \in 0..MaxFrames /\ OtherBuffer \in Buffers
  BY MaxFramesOK DEF Buffers
<1>5. ASSUME NEW b \in Slots, Acquire(b) /\ Takes(b)
      PROVE  CountersOK' /\ DisplayInv' /\ SoftwareInv' /\ (shown <= Taken)' /\ Refines
  <2>1. /\ PoolInv' /\ CountersOK' /\ newest' = newest
        /\ displayed' = b /\ inFlight' = inFlight \cup {b}
        /\ IF pending # None
           THEN b \notin inFlight \cup {displayed} /\ SlotTaken' = newest
           ELSE b = displayed /\ SlotTaken' = SlotTaken
    BY <1>0, <1>5, AcquireStep
  <2>2. DisplayInv'
    BY <1>0, <1>3, <1>4, <1>5, DisplayStep DEF Takes
  <2>3. /\ got' = b /\ UNCHANGED <<queued, onScreen, prev, shown>>
        /\ \/ disp = "preroll" /\ disp' = "peeked"
           \/ disp = "commit" /\ disp' = "submit"
    BY <1>5 DEF Takes, PrerollTakes, CommitTakes
  <2>4. queued = None /\ prev = None /\ onScreen \in inFlight \cup {None}
        /\ onScreen = got
    BY <1>0, <2>3 DEF DisplayInv
  <2>5. disp' = "submit" => onScreen # b
    BY <1>0, <1>3, <2>1, <2>3, <2>4
  <2>6. SoftwareInv'
    BY <1>0, <1>1, <1>3, <2>1, <2>3, <2>4, <2>5
  <2>7. Taken' \in {Taken, newest} /\ (shown <= Taken)'
    BY <1>0, <1>1, <1>2, <2>1, <2>3
  <2> QED
    BY <2>1, <2>2, <2>3, <2>6, <2>7, RefinesIf DEF EndedSame
<1>6. CASE PrerollGivesBack /\ Release(got)
  <2>1. /\ PoolInv' /\ CountersOK' /\ newest' = newest /\ SlotTaken' = SlotTaken
        /\ inFlight' = inFlight \ {got} /\ UNCHANGED <<pending, displayed>>
    BY <1>0, <1>6, ReleaseStep
  <2>2. DisplayInv'
    BY <1>0, <1>4, <1>6, DisplayStep
  <2>3. /\ disp = "peeked" /\ disp' = "commit" /\ got' = None
        /\ UNCHANGED <<queued, onScreen, prev, shown>>
    BY <1>6 DEF PrerollGivesBack
  <2>4. queued = None /\ prev = None /\ onScreen = None
    BY <1>0, <2>3 DEF DisplayInv
  <2>5. None \notin inFlight
    BY <1>0, NoneIsNoSlot DEF PoolInv, SoftwareTypeOK
  <2>6. SoftwareInv'
    BY <1>0, <1>1, <2>1, <2>3, <2>4, <2>5
  <2> QED
    BY <1>0, <1>1, <2>1, <2>2, <2>3, <2>6, RefinesIf DEF EndedSame
<1>7. CASE SceneReleases /\ Release(prev)
  <2>1. /\ PoolInv' /\ CountersOK' /\ newest' = newest /\ SlotTaken' = SlotTaken
        /\ inFlight' = inFlight \ {prev} /\ UNCHANGED <<pending, displayed>>
    BY <1>0, <1>7, ReleaseStep
  <2>2. DisplayInv'
    BY <1>0, <1>4, <1>7, DisplayStep
  <2>3. /\ disp = "loop" /\ ~flipPending /\ prev # None /\ prev' = None
        /\ UNCHANGED <<disp, got, queued, onScreen, shown>>
    BY <1>7 DEF SceneReleases
  <2>4. queued = None /\ onScreen = got /\ onScreen # prev
    BY <1>0, <2>3 DEF DisplayInv
  <2>5. SoftwareInv'
    BY <1>0, <1>1, <2>1, <2>3, <2>4
  <2> QED
    BY <1>0, <1>1, <2>1, <2>2, <2>3, <2>5, RefinesIf DEF EndedSame
<1>8. ASSUME UNCHANGED <<rxVars, swVars>>
      PROVE  /\ PoolInv' /\ CountersOK' /\ newest' = newest /\ SlotTaken' = SlotTaken
             /\ UNCHANGED <<pending, displayed, inFlight>>
  BY <1>0, <1>8
     DEF rxVars, swVars, poolVars, gpuVars, PoolInv, SoftwareTypeOK, CountersOK, SlotTaken
<1>9. CASE RenderStarts(HasFreshContent) /\ UNCHANGED <<rxVars, swVars>>
  <2>1. DisplayInv'
    BY <1>0, <1>4, <1>9, DisplayStep
  <2>2. /\ disp = "loop" /\ disp' = "commit" /\ pending # None
        /\ UNCHANGED <<got, queued, onScreen, prev, shown>>
    BY <1>9 DEF RenderStarts, HasFreshContent
  <2>3. SoftwareInv'
    BY <1>0, <1>1, <1>8, <1>9, <2>2
  <2> QED
    BY <1>0, <1>1, <1>8, <1>9, <2>1, <2>2, <2>3, RefinesIf DEF EndedSame
<1>10. CASE CommitQueued(content[got]) /\ UNCHANGED <<rxVars, swVars>>
  <2>1. disp = "submit" /\ got # None /\ got = displayed /\ got \in Slots
    BY <1>0, <1>10 DEF CommitQueued, DisplayInv
  <2>2. content[got] \in 0..MaxFrames /\ content[got] = SlotTaken
    BY <1>0, <2>1 DEF SlotTaken, PoolInv, SoftwareTypeOK
  <2>3. DisplayInv'
    BY <1>0, <1>4, <1>10, <2>2, DisplayStep
  <2>4. /\ disp' = "loop" /\ queued' = got /\ shown' = content[got]
        /\ UNCHANGED <<got, onScreen, prev>>
    BY <1>10 DEF CommitQueued
  <2>5. queued = None /\ prev = None
    BY <1>0, <2>1 DEF DisplayInv
  <2>6. SoftwareInv'
    BY <1>0, <1>1, <1>8, <1>10, <2>1, <2>4, <2>5
  <2>7. (shown <= Taken)' /\ (shown' = shown \/ (shown' > shown /\ shown' <= Taken))
    BY <1>0, <1>1, <1>2, <1>8, <1>10, <2>2, <2>4
  <2> QED
    BY <1>0, <1>1, <1>8, <1>10, <2>1, <2>3, <2>4, <2>6, <2>7, RefinesIf DEF EndedSame
<1>11. CASE DisplayAlone /\ UNCHANGED <<rxVars, swVars>>
  <2>1. DisplayInv'
    BY <1>0, <1>4, <1>11, DisplayStep
  <2>2. CASE Flip
    <3>1. /\ queued # None /\ onScreen' = queued /\ prev' = onScreen /\ queued' = None
          /\ UNCHANGED <<disp, got, shown>>
      BY <2>2 DEF Flip
    <3>2. queued = got /\ prev = None /\ disp \notin {"preroll", "peeked", "commit", "submit"}
      BY <1>0, <3>1 DEF DisplayInv
    <3>3. SoftwareInv'
      BY <1>0, <1>1, <1>8, <1>11, <3>1, <3>2
    <3> QED
      BY <1>0, <1>1, <1>8, <1>11, <2>1, <3>1, <3>3, RefinesIf DEF EndedSame
  <2>3. CASE CommitFails \/ FlipHandled \/ Quit
    <3>1. /\ UNCHANGED <<got, queued, onScreen, prev, shown>>
          /\ disp' = "done" \/ disp' = disp
      BY <2>3 DEF CommitFails, FlipHandled, Quit
    <3>2. SoftwareInv'
      BY <1>0, <1>1, <1>8, <1>11, <3>1
    <3> QED
      BY <1>0, <1>1, <1>8, <1>11, <2>1, <3>1, <3>2, RefinesIf DEF EndedSame
  <2> QED
    BY <1>11, <2>2, <2>3 DEF DisplayAlone
<1> QED
  BY <1>5, <1>6, <1>7, <1>9, <1>10, <1>11 DEF SoftwareDisplay

(***************************************************************************)
(* The software source behind GlRotateSource.                              *)
(***************************************************************************)
LEMMA GlStep ==
  ASSUME IInv, GlNext
  PROVE  CountersOK' /\ DisplayInv' /\ GlInv' /\ (shown <= Taken)' /\ Refines
<1> USE DEF GlInv
<1>0. GlInv /\ CountersOK /\ DisplayInv /\ TypeOK /\ backend = "gpu"
  BY DEF IInv, GlNext
<1>1. UNCHANGED <<vaVars, v4Vars, backend>>
  BY DEF GlNext
<1>2. UNCHANGED <<pendingSurf, currentSurf>> /\ Taken = borrowed.frame /\ Taken' = borrowed'.frame
  BY <1>0, <1>1 DEF vaVars, Taken
<1>3. /\ drawn \in 0..MaxFrames /\ shown \in Nat /\ borrowed.frame \in 0..MaxFrames
      /\ newest \in 0..MaxFrames /\ OtherBuffer \in Buffers /\ OtherBuffer # None
      /\ 0 \in 0..MaxFrames
  BY <1>0, MaxFramesOK, BuffersDistinct
     DEF TypeOK, DisplayInv, KmsTypeOK, CountersOK, IngestInv, SoftwareTypeOK, Buffers
\* What the next step of any of the display thread's operations keeps.
<1>4. ASSUME UNCHANGED <<rxVars, swVars>>
      PROVE  /\ IngestInv' /\ CountersOK' /\ newest' = newest /\ Taken' = Taken
             /\ UNCHANGED <<pending, displayed, inFlight, borrowed>>
  BY <1>0, <1>2, <1>4
     DEF rxVars, swVars, poolVars, gpuVars, IngestInv, SoftwareTypeOK, CountersOK
<1>5. ASSUME Takes(OtherBuffer)
      PROVE  /\ DisplayInv' /\ got' = OtherBuffer
             /\ UNCHANGED <<queued, onScreen, prev, shown>>
             /\ disp # "done" /\ disp' # "done"
  <2>1. DisplayInv'
    BY <1>0, <1>3, <1>5, DisplayStep DEF Takes
  <2> QED
    BY <1>5, <2>1 DEF Takes, PrerollTakes, CommitTakes
<1>6. ASSUME UNCHANGED kmsVars
      PROVE  DisplayInv' /\ UNCHANGED <<disp, got, queued, onScreen, prev, shown>>
  BY <1>0, <1>6 DEF DisplayInv, KmsTypeOK, kmsVars
<1>7. CASE IngestRx /\ UNCHANGED <<kmsVars, glVars>>
  <2>1. /\ IngestInv' /\ CountersOK' /\ Delivers /\ UNCHANGED <<borrowed, poolVars>>
    BY <1>0, <1>7, IngestRxStep
  <2> QED
    BY <1>0, <1>2, <1>6, <1>7, <2>1, RefinesIf DEF IInv, EndedSame, poolVars, glVars
<1>8. CASE GlBorrow
  <2>1. /\ IngestInv' /\ CountersOK' /\ newest' = newest /\ borrowed'.frame = newest
        /\ UNCHANGED poolVars
    BY <1>0, <1>8, BorrowStep DEF GlBorrow
  <2>2. disp \in {"preroll", "commit"} /\ UNCHANGED <<kmsVars, drawn>>
    BY <1>8 DEF GlBorrow
  <2>3. drawn <= newest /\ shown <= newest
    BY <1>0, <1>3 DEF IngestInv
  <2> QED
    BY <1>0, <1>2, <1>3, <1>6, <2>1, <2>2, <2>3, RefinesIf DEF IInv, EndedSame, poolVars
<1>9. CASE GlSwap
  <2>1. drawing' = FALSE /\ drawn' = borrowed.frame /\ Takes(OtherBuffer) /\ UNCHANGED <<rxVars, swVars>>
    BY <1>9 DEF GlSwap
  <2>2. shown <= borrowed.frame
    BY <1>0, <1>3
  <2> QED
    BY <1>0, <1>2, <1>3, <1>4, <1>5, <2>1, <2>2, RefinesIf DEF EndedSame
<1>10. CASE GlFails
  <2>1. /\ drawing' = FALSE /\ UNCHANGED <<rxVars, swVars, drawn>>
        /\ Takes(OtherBuffer) \/ UNCHANGED kmsVars
    BY <1>10 DEF GlFails
  <2>2. shown <= borrowed.frame
    BY <1>0, <1>3
  <2>3. /\ DisplayInv' /\ shown' = shown /\ EndedSame
        /\ {got', queued', onScreen', prev'} \subseteq {OtherBuffer, None}
    BY <1>0, <1>5, <1>6, <2>1 DEF EndedSame
  <2> QED
    BY <1>0, <1>2, <1>4, <2>1, <2>2, <2>3, RefinesIf
<1>11. CASE /\ \/ PrerollGivesBack \/ SceneReleases \/ RenderStarts(seq > lastSeq)
               \/ CommitQueued(drawn) \/ (DisplayAlone /\ ~drawing)
            /\ UNCHANGED <<rxVars, swVars, glVars>>
  <2>1. DisplayInv'
    BY <1>0, <1>3, <1>11, DisplayStep
  <2>2. {got', queued', onScreen', prev'} \subseteq {OtherBuffer, None}
    BY <1>0, <1>11
       DEF PrerollGivesBack, SceneReleases, RenderStarts, CommitQueued, DisplayAlone,
           CommitFails, Flip, FlipHandled, Quit
  <2>3. drawing' => disp' \in {"preroll", "commit"}
    BY <1>0, <1>11
       DEF PrerollGivesBack, SceneReleases, RenderStarts, CommitQueued, DisplayAlone, glVars
  <2>4. \/ shown' = shown
        \/ shown' = drawn /\ disp' = "loop" /\ disp = "submit"
    BY <1>11
       DEF PrerollGivesBack, SceneReleases, RenderStarts, CommitQueued, DisplayAlone,
           CommitFails, Flip, FlipHandled, Quit
  <2>5. EndedSame \/ (disp' = "done" /\ shown' = shown)
    BY <1>11
       DEF PrerollGivesBack, SceneReleases, RenderStarts, CommitQueued, DisplayAlone,
           CommitFails, Flip, FlipHandled, Quit, EndedSame
  <2>6. drawn' = drawn /\ drawing' = drawing
    BY <1>11 DEF glVars
  <2>7. shown' <= drawn' /\ shown' <= Taken' /\ (shown' = shown \/ (shown' > shown /\ shown' <= Taken))
    BY <1>0, <1>2, <1>3, <1>4, <1>11, <2>4, <2>6
  <2> QED
    BY <1>0, <1>2, <1>4, <1>11, <2>1, <2>2, <2>3, <2>5, <2>6, <2>7, RefinesIf
<1> QED
  BY <1>7, <1>8, <1>9, <1>10, <1>11 DEF GlNext, GlDisplay

(***************************************************************************)
(* The VAAPI source.  The ring must keep two frames: the one on the screen *)
(* and the one that replaces it.                                           *)
(***************************************************************************)
LEMMA VaapiStep ==
  ASSUME IInv, VaapiNext, KRetain >= 2
  PROVE  CountersOK' /\ DisplayInv' /\ VaapiPathInv' /\ (shown <= Taken)' /\ Refines
<1> USE DEF VaapiPathInv
<1>0. VaapiPathInv /\ CountersOK /\ DisplayInv /\ backend = "vaapi"
  BY DEF IInv, VaapiNext
<1>1. UNCHANGED <<swVars, v4Vars, glVars, backend>>
  BY DEF VaapiNext
<1>2. /\ UNCHANGED <<pending, displayed, inFlight>>
      /\ Taken = FrameIn(currentSurf) /\ Taken' = FrameIn(currentSurf)'
  BY <1>0, <1>1 DEF swVars, poolVars, Taken
<1>3. /\ shown \in Nat /\ newest \in Nat /\ shown <= Taken /\ Taken <= newest
      /\ 0 \in 0..MaxFrames /\ OtherBuffer \in Buffers
      /\ KRetain \in Nat /\ 1 < KRetain /\ KRetain >= 1
  BY <1>0, <1>2, MaxFramesOK, KRetainOK
     DEF IInv, DisplayInv, KmsTypeOK, CountersOK, VaapiInv, Buffers
<1>4. \A s \in Surfaces : s \in Buffers /\ s # None
  BY NoneIsNoSurface DEF Buffers
<1>5. FrameIn(currentSurf) \in 0..MaxFrames
  BY <1>0, MaxFramesOK DEF VaapiInv, VaapiTypeOK, FrameIn
<1>6. ASSUME UNCHANGED retained
      PROVE  \A s, n : Recent(s, n)' <=> Recent(s, n)
  BY <1>6 DEF Recent
<1>7. ASSUME UNCHANGED kmsVars
      PROVE  DisplayInv' /\ EndedSame /\ UNCHANGED <<disp, got, queued, onScreen, prev, shown>>
  BY <1>0, <1>7 DEF DisplayInv, KmsTypeOK, kmsVars, EndedSame
<1>8. CASE VaapiRx /\ UNCHANGED kmsVars
  <2>1. /\ VaapiInv' /\ CountersOK' /\ Delivers
        /\ FrameIn(currentSurf)' = FrameIn(currentSurf)
        /\ UNCHANGED <<currentSurf, retained>>
    BY <1>0, <1>8, VaapiRxStep
  <2> QED
    BY <1>0, <1>2, <1>3, <1>6, <1>7, <1>8, <2>1, RefinesIf
<1>9. ASSUME NEW s \in Surfaces, Takes(s), currentSurf' = s
      PROVE  /\ DisplayInv' /\ EndedSame /\ got' = s /\ got' = currentSurf'
             /\ UNCHANGED <<queued, onScreen, prev, shown>>
             /\ queued = None /\ prev = None /\ onScreen \in {None, currentSurf}
  <2>1. DisplayInv'
    BY <1>0, <1>3, <1>4, <1>9, DisplayStep DEF Takes
  <2>2. /\ got' = s /\ UNCHANGED <<queued, onScreen, prev, shown>> /\ EndedSame
        /\ disp \in {"preroll", "commit"}
    BY <1>9 DEF Takes, PrerollTakes, CommitTakes, EndedSame
  <2> QED
    BY <1>0, <1>9, <2>1, <2>2 DEF DisplayInv
<1>10. ASSUME NEW s \in Surfaces, TakePending(s), Takes(s)
       PROVE  CountersOK' /\ DisplayInv' /\ VaapiPathInv' /\ (shown <= Taken)' /\ Refines
  <2>1. /\ VaapiInv' /\ CountersOK' /\ newest' = newest
        /\ FrameIn(currentSurf)' = newest /\ currentSurf' = s
        /\ \A t : \A n \in Nat : n < KRetain /\ Recent(t, n) => Recent(t, n + 1)'
    BY <1>0, <1>3, <1>10, TakePendingStep
  <2>2. /\ DisplayInv' /\ EndedSame /\ got' = currentSurf' /\ got' = s
        /\ UNCHANGED <<queued, onScreen, prev, shown>>
        /\ queued = None /\ prev = None /\ onScreen \in {None, currentSurf}
    BY <1>9, <1>10, <2>1
  <2>3. currentSurf # None => Recent(currentSurf, 1)
    BY <1>0 DEF VaapiInv
  <2>4. \A t : t = currentSurf /\ t # None => Recent(t, 1 + 1)'
    BY <1>3, <2>1, <2>3
  <2>5. \A t : t = currentSurf /\ t # None => Recent(t, 2)'
    BY <2>4, 1 + 1 = 2
  <2>6. \A t \in {queued, onScreen, prev}' : t # None => Recent(t, 2)'
    BY <2>2, <2>5
  <2>7. Taken' = newest /\ (shown <= Taken)'
    BY <1>2, <1>3, <1>5, <2>1, <2>2
  <2> QED
    BY <1>0, <1>2, <2>1, <2>2, <2>6, <2>7, RefinesIf
<1>11. ASSUME KeepCurrent
       PROVE  /\ VaapiInv' /\ CountersOK' /\ newest' \in {newest, Taken} /\ Taken' = Taken
              /\ UNCHANGED <<currentSurf, retained>>
  BY <1>0, <1>2, <1>11, KeepCurrentStep
<1>12. ASSUME NEW s \in Surfaces, s = currentSurf, KeepCurrent, Takes(s)
       PROVE  CountersOK' /\ DisplayInv' /\ VaapiPathInv' /\ (shown <= Taken)' /\ Refines
  <2>1. /\ DisplayInv' /\ EndedSame /\ got' = currentSurf' /\ got' = s
        /\ UNCHANGED <<queued, onScreen, prev, shown>>
    BY <1>9, <1>11, <1>12
  <2> QED
    BY <1>0, <1>2, <1>3, <1>6, <1>11, <1>12, <2>1, RefinesIf
<1>13. CASE AcquireNoSurface /\ UNCHANGED kmsVars
  BY <1>0, <1>2, <1>3, <1>6, <1>7, <1>11, <1>13, RefinesIf DEF AcquireNoSurface
<1>14. CASE /\ \/ PrerollGivesBack \/ SceneReleases \/ RenderStarts(HasFreshSurface)
               \/ CommitQueued(surface[got]) \/ DisplayAlone
            /\ UNCHANGED <<rxVars, vaVars>>
  <2>1. /\ VaapiInv' /\ CountersOK' /\ newest' = newest /\ Taken' = Taken
        /\ UNCHANGED <<currentSurf, retained>>
    BY <1>0, <1>2, <1>14
       DEF rxVars, vaVars, VaapiInv, VaapiTypeOK, CountersOK, Recent, Pinned, FrameIn
  <2>2. disp = "submit" => got = currentSurf /\ surface[got] = Taken
    BY <1>0, <1>2, <1>4 DEF DisplayInv, FrameIn
  <2>3. DisplayInv'
    <3>1. CASE CommitQueued(surface[got])
      <4>1. surface[got] \in 0..MaxFrames
        BY <1>2, <1>5, <2>2, <3>1 DEF CommitQueued
      <4> QED
        BY <1>0, <1>3, <3>1, <4>1, DisplayStep
    <3>2. CASE ~CommitQueued(surface[got])
      BY <1>0, <1>3, <1>14, <3>2, DisplayStep
    <3> QED
      BY <3>1, <3>2
  <2>4. /\ got' \in {got, None}
        /\ \A s \in {queued', onScreen', prev'} : s \in {got, queued, onScreen, prev, None}
    BY <1>0, <1>14
       DEF PrerollGivesBack, SceneReleases, RenderStarts, CommitQueued, DisplayAlone,
           CommitFails, Flip, FlipHandled, Quit
  <2>5. got # None => Recent(got, 2)
    <3>1. got # None => Recent(got, 1)
      BY <1>0 DEF VaapiInv
    <3> QED
      BY <1>0, <3>1, LenProperties DEF Recent, VaapiInv, VaapiTypeOK
  <2>6. VaapiPathInv'
    BY <1>0, <1>2, <1>6, <2>1, <2>4, <2>5
  <2>7. \/ shown' = shown
        \/ shown' = surface[got] /\ disp' = "loop" /\ disp = "submit"
    BY <1>14
       DEF PrerollGivesBack, SceneReleases, RenderStarts, CommitQueued, DisplayAlone,
           CommitFails, Flip, FlipHandled, Quit
  <2>8. EndedSame \/ (disp' = "done" /\ shown' = shown)
    BY <1>14
       DEF PrerollGivesBack, SceneReleases, RenderStarts, CommitQueued, DisplayAlone,
           CommitFails, Flip, FlipHandled, Quit, EndedSame
  <2>9. shown' <= Taken' /\ (shown' = shown \/ (shown' > shown /\ shown' <= Taken))
    BY <1>2, <1>3, <1>5, <2>1, <2>2, <2>7, MaxFramesOK
  <2> QED
    BY <2>1, <2>3, <2>6, <2>8, <2>9, RefinesIf
<1> QED
  BY <1>8, <1>10, <1>12, <1>13, <1>14 DEF VaapiNext, VaapiDisplay, AcquireSurface

(***************************************************************************)
(* The V4L2 adapter.                                                       *)
(***************************************************************************)
\* A queue that takes a chunk, after losing its oldest if it is full.
LEMMA PushedIs ==
  ASSUME queue \in Seq(Frames), Len(queue) <= KMaxQueue, NEW chunk \in Frames
  PROVE  /\ Pushed(chunk) \in Seq(Frames)
         /\ Len(Pushed(chunk)) <= KMaxQueue
         /\ \E k \in {0, 1} : \A i \in 1..Len(Pushed(chunk)) :
              \/ i = Len(Pushed(chunk)) /\ Pushed(chunk)[i] = chunk
              \/ /\ i + k \in 1..Len(queue) /\ i < Len(Pushed(chunk))
                 /\ Pushed(chunk)[i] = queue[i + k]
<1>1. Len(queue) \in Nat /\ KMaxQueue \in Nat \ {0}
  BY LenProperties, QueuesOK
<1>2. CASE Len(queue) >= KMaxQueue
  <2>1. queue # <<>>
    BY <1>1, <1>2, EmptySeq
  <2>2. /\ Tail(queue) \in Seq(Frames) /\ Len(Tail(queue)) = Len(queue) - 1
        /\ \A i \in 1..Len(Tail(queue)) : Tail(queue)[i] = queue[i + 1]
    BY <2>1, HeadTailProperties
  <2>3. Pushed(chunk) = Append(Tail(queue), chunk)
    BY <1>2 DEF Pushed
  <2>4. /\ Pushed(chunk) \in Seq(Frames)
        /\ Len(Pushed(chunk)) = Len(queue)
        /\ \A i \in 1..(Len(queue) - 1) : Pushed(chunk)[i] = Tail(queue)[i]
        /\ Pushed(chunk)[(Len(queue) - 1) + 1] = chunk
    BY <1>1, <2>2, <2>3, AppendProperties
  <2>5. \A i \in 1..(Len(queue) - 1) : Pushed(chunk)[i] = queue[i + 1]
    BY <2>2, <2>4
  <2>6. (Len(queue) - 1) + 1 = Len(queue)
    BY <1>1
  <2>7. \A i \in 1..Len(Pushed(chunk)) :
          \/ i = Len(Pushed(chunk)) /\ Pushed(chunk)[i] = chunk
          \/ /\ i + 1 \in 1..Len(queue) /\ i < Len(Pushed(chunk))
             /\ Pushed(chunk)[i] = queue[i + 1]
    BY <1>1, <2>4, <2>5, <2>6
  <2> QED
    BY <2>4, <2>7
<1>3. CASE ~(Len(queue) >= KMaxQueue)
  <2>1. Pushed(chunk) = Append(queue, chunk)
    BY <1>3 DEF Pushed
  <2>2. /\ Pushed(chunk) \in Seq(Frames)
        /\ Len(Pushed(chunk)) = Len(queue) + 1
        /\ \A i \in 1..Len(queue) : Pushed(chunk)[i] = queue[i]
        /\ Pushed(chunk)[Len(queue) + 1] = chunk
    BY <2>1, AppendProperties
  <2>3. \A i \in 1..Len(Pushed(chunk)) :
          \/ i = Len(Pushed(chunk)) /\ Pushed(chunk)[i] = chunk
          \/ /\ i + 0 \in 1..Len(queue) /\ i < Len(Pushed(chunk))
             /\ Pushed(chunk)[i] = queue[i + 0]
    BY <1>1, <2>2
  <2> QED
    BY <1>1, <1>3, <2>2, <2>3
<1> QED
  BY <1>2, <1>3

\* The chunks stay in order, and so do the pictures.
LEMMA ChunksStep ==
  ASSUME V4l2TypeOK, CountersOK, V4l2Inv, V4l2Rx \/ Pump \/ PumpEnds
  PROVE  /\ V4l2TypeOK' /\ CountersOK' /\ ChunksInOrder' /\ Delivers
         /\ rx' \in {"idle", "nudge"} /\ fill' = None
         /\ current' = current /\ newest <= newest'
<1> USE DEF V4l2Inv, CountersOK
<1> DEFINE Goal == /\ V4l2TypeOK' /\ CountersOK' /\ ChunksInOrder' /\ Delivers
                   /\ rx' \in {"idle", "nudge"} /\ fill' = None
                   /\ current' = current /\ newest <= newest'
<1>1. /\ queue \in Seq(Frames) /\ Len(queue) <= KMaxQueue
      /\ output \in Seq(Frames) /\ Len(output) <= KOutput
      /\ wake \in BOOLEAN /\ failed \in BOOLEAN /\ pump \in PumpPlaces
      /\ cur \in 0..MaxFrames /\ offered \in 0..MaxFrames /\ current \in 0..MaxFrames
  BY DEF V4l2TypeOK
<1>2. /\ Len(queue) \in Nat /\ Len(output) \in Nat
      /\ \A i \in 1..Len(queue) : queue[i] \in Frames
      /\ \A i \in 1..Len(output) : output[i] \in Frames
      /\ decoded \in Nat /\ newest \in Nat /\ newest <= decoded /\ cur \in Nat
      /\ decoded <= MaxFrames
  BY <1>1, LenProperties, ElementOfSeq, MaxFramesOK
\* Steps that move no chunk and deliver no picture.
<1>3. ASSUME UNCHANGED <<queue, output, cur, offered, current, fill, newest>>,
             decoded' \in decoded..MaxFrames, rx' \in {"idle", "nudge"},
             wake' \in BOOLEAN, failed' \in BOOLEAN, pump' \in PumpPlaces
      PROVE  Goal
  <2>1. V4l2TypeOK'
    BY <1>1, <1>3 DEF V4l2TypeOK
  <2>2. CountersOK' /\ Delivers
    BY <1>2, <1>3, MaxFramesOK DEF Delivers
  <2>3. ChunksInOrder'
    BY <1>2, <1>3, MaxFramesOK DEF ChunksInOrder, Frames
  <2> QED
    BY <1>2, <1>3, <2>1, <2>2, <2>3
<1>4. CASE Submit
  <2>1. /\ decoded' = decoded + 1 /\ decoded < MaxFrames /\ rx' = "nudge"
        /\ queue' = Pushed(decoded')
        /\ UNCHANGED <<fill, newest, wake, pump, cur, failed, output, offered, current>>
    BY <1>4 DEF Submit, NextFrame, pumpVars
  <2>2. decoded' \in Frames
    BY <1>2, <2>1, MaxFramesOK DEF Frames
  <2>3. queue' \in Seq(Frames) /\ Len(queue') <= KMaxQueue /\ Len(queue') \in Nat
    BY <1>1, <2>1, <2>2, PushedIs, LenProperties
  <2>4. PICK k \in {0, 1} : \A i \in 1..Len(queue') :
          \/ i = Len(queue') /\ queue'[i] = decoded + 1
          \/ /\ i + k \in 1..Len(queue) /\ i < Len(queue')
             /\ queue'[i] = queue[i + k]
    BY <1>1, <2>1, <2>2, PushedIs
  <2>5. V4l2TypeOK'
    BY <1>1, <2>1, <2>3 DEF V4l2TypeOK
  <2>6. CountersOK' /\ Delivers
    BY <1>2, <2>1, MaxFramesOK DEF Delivers
  <2>7. ChunksInOrder'
    <3>1. \A i \in 1..Len(output') : newest' < output'[i] /\ output'[i] <= decoded'
      BY <1>2, <2>1, MaxFramesOK DEF ChunksInOrder, Frames
    <3>2. \A i, j \in 1..Len(output') : i < j => output'[i] < output'[j]
      BY <2>1 DEF ChunksInOrder
    <3>3. cur' # 0 => /\ newest' < cur' /\ cur' <= decoded'
                      /\ \A i \in 1..Len(output') : output'[i] < cur'
      BY <1>2, <2>1, MaxFramesOK DEF ChunksInOrder
    <3>4. \A i \in 1..Len(queue') :
            /\ newest' < queue'[i] /\ queue'[i] <= decoded' /\ cur' < queue'[i]
            /\ \A j \in 1..Len(output') : output'[j] < queue'[i]
      <4> SUFFICES ASSUME NEW i \in 1..Len(queue')
                   PROVE /\ newest' < queue'[i] /\ queue'[i] <= decoded' /\ cur' < queue'[i]
                         /\ \A j \in 1..Len(output') : output'[j] < queue'[i]
        OBVIOUS
      <4>1. CASE queue'[i] = decoded + 1
        <5>1. cur <= decoded
          BY <1>2 DEF ChunksInOrder
        <5>2. \A j \in 1..Len(output) : output[j] < decoded + 1
          BY <1>2, MaxFramesOK DEF ChunksInOrder, Frames
        <5> QED
          BY <1>2, <2>1, <4>1, <5>1, <5>2
      <4>2. CASE i + k \in 1..Len(queue) /\ queue'[i] = queue[i + k]
        <5>1. /\ newest < queue[i + k] /\ queue[i + k] <= decoded /\ cur < queue[i + k]
              /\ \A j \in 1..Len(output) : output[j] < queue[i + k]
              /\ queue[i + k] \in Nat
          BY <1>2, <4>2, MaxFramesOK DEF ChunksInOrder, Frames
        <5> QED
          BY <1>2, <2>1, <4>2, <5>1
      <4> QED
        BY <2>4, <4>1, <4>2
    <3>5. \A i, j \in 1..Len(queue') : i < j => queue'[i] < queue'[j]
      <4> SUFFICES ASSUME NEW i \in 1..Len(queue'), NEW j \in 1..Len(queue'), i < j
                   PROVE  queue'[i] < queue'[j]
        OBVIOUS
      <4>1. i + k \in 1..Len(queue) /\ queue'[i] = queue[i + k]
        BY <2>3, <2>4
      <4>2. queue[i + k] <= decoded /\ queue[i + k] \in Nat
        BY <1>2, <4>1, MaxFramesOK DEF ChunksInOrder, Frames
      <4>3. CASE queue'[j] = decoded + 1
        BY <1>2, <4>1, <4>2, <4>3
      <4>4. CASE j + k \in 1..Len(queue) /\ queue'[j] = queue[j + k]
        BY <4>1, <4>4 DEF ChunksInOrder
      <4> QED
        BY <2>4, <4>3, <4>4
    <3> QED
      BY <3>1, <3>2, <3>3, <3>4, <3>5 DEF ChunksInOrder
  <2> QED
    BY <1>2, <2>1, <2>5, <2>6, <2>7
<1>5. CASE SubmitIgnored
  BY <1>1, <1>2, <1>3, <1>5, MaxFramesOK
     DEF SubmitIgnored, NextFrame, v4Vars, queueVars, pumpVars
<1>6. CASE Nudge
  BY <1>1, <1>2, <1>3, <1>6 DEF Nudge, pumpVars
<1>7. CASE PumpPolls
  BY <1>1, <1>2, <1>3, <1>7 DEF PumpPolls, PumpPlaces, rxVars, queueVars
<1>8. CASE PumpDrains
  <2>1. /\ wake' = FALSE /\ pump' = "drive"
        /\ UNCHANGED <<rx, fill, decoded, newest, queue, cur, failed, output, offered, current>>
    BY <1>8 DEF PumpDrains, rxVars
  <2>2. decoded' \in decoded..MaxFrames
    BY <1>2, <2>1, MaxFramesOK
  <2> QED
    BY <1>1, <1>3, <2>1, <2>2 DEF PumpPlaces
<1>9. CASE PumpFails
  BY <1>1, <1>2, <1>3, <1>9 DEF PumpFails, PumpPlaces, rxVars, queueVars
<1>10. CASE PumpWaits
  BY <1>1, <1>2, <1>3, <1>10 DEF PumpWaits, PumpPlaces, rxVars, queueVars
<1>11. CASE PumpEnds
  BY <1>1, <1>2, <1>3, <1>11 DEF PumpEnds, PumpPlaces, rxVars, queueVars
<1>12. CASE PumpDriving
  <2>1. PICK n \in 0..KOutput, frame \in 0..MaxFrames : PumpDrives(n, frame)
    BY <1>12 DEF PumpDriving
  <2>2. /\ n <= Len(output)
        /\ frame = newest \/ \E i \in 1..n : frame = output[i]
        /\ newest' = frame /\ pump' = "feed"
        /\ output' = SubSeq(output, n + 1, Len(output))
        /\ UNCHANGED <<rx, fill, decoded, queue, wake, cur, failed, offered, current>>
    BY <2>1 DEF PumpDrives, queueVars
  <2>3. n \in Nat /\ Len(output) \in n..Len(output)
    BY <1>2, <2>1, <2>2, QueuesOK
  <2>4. /\ output' \in Seq(Frames) /\ Len(output') = Len(output) - n
        /\ \A i \in 1..(Len(output) - n) : output'[i] = output[n + i]
    <3>1. \A i \in (n + 1)..Len(output) : output[i] \in Frames
      BY <1>2, <2>3
    <3>2. n + 1 \in Int /\ Len(output) \in Int /\ Len(output) - (n + 1) + 1 = Len(output) - n
      BY <1>2, <2>3
    <3>3. /\ output' \in Seq(Frames)
          /\ Len(output') = IF n + 1 <= Len(output) THEN Len(output) - (n + 1) + 1 ELSE 0
          /\ \A i \in 1..(Len(output) - (n + 1) + 1) : output'[i] = output[(n + 1) + i - 1]
      BY <2>2, <3>1, <3>2, SubSeqProperties
    <3>4. Len(output') = Len(output) - n
      BY <1>2, <2>3, <3>3
    <3>5. ASSUME NEW i \in 1..(Len(output) - n)
          PROVE  output'[i] = output[n + i]
      <4>1. i \in Nat /\ i >= 1 /\ (n + 1) + i - 1 = n + i
        BY <1>2, <2>3
      <4> QED
        BY <3>2, <3>3, <4>1
    <3> QED
      BY <3>3, <3>4, <3>5
  <2>5. \A i \in 1..Len(output') : n + i \in 1..Len(output) /\ output'[i] = output[n + i]
    BY <1>2, <2>3, <2>4
  <2>6. /\ newest' = newest \/ (newest' \in Frames /\ newest' > newest)
        /\ newest' \in 0..decoded /\ newest <= newest'
    <3>1. CASE frame = newest
      BY <1>2, <2>2, <3>1
    <3>2. ASSUME NEW i \in 1..n, frame = output[i]
          PROVE  newest' \in Frames /\ newest' > newest /\ newest' <= decoded
      BY <1>2, <2>2, <2>3, <3>2 DEF ChunksInOrder
    <3> QED
      BY <1>2, <2>2, <3>1, <3>2, MaxFramesOK DEF Frames
  <2>7. \A m \in Frames :
          (newest < m /\ \A j \in 1..Len(output) : j <= n => output[j] < m) => newest' < m
    BY <1>2, <2>2, <2>3
  <2>8. V4l2TypeOK'
    <3>1. Len(output') <= KOutput
      BY <1>1, <1>2, <2>3, <2>4, QueuesOK
    <3> QED
      BY <1>1, <1>2, <2>2, <2>4, <2>6, <3>1 DEF V4l2TypeOK, PumpPlaces
  <2>9. CountersOK' /\ Delivers
    BY <2>2, <2>6 DEF Delivers
  <2>10. ChunksInOrder'
    <3>1. \A i \in 1..Len(output') : newest' < output'[i] /\ output'[i] <= decoded'
      <4> SUFFICES ASSUME NEW i \in 1..Len(output')
                   PROVE  newest' < output'[i] /\ output'[i] <= decoded'
        OBVIOUS
      <4>1. n + i \in 1..Len(output) /\ output'[i] = output[n + i] /\ i \in Nat /\ i >= 1
        <5>1. i \in Nat /\ i >= 1
          BY <1>2, <2>3, <2>4
        <5> QED
          BY <2>5, <5>1
      <4>2. newest < output[n + i] /\ output[n + i] <= decoded /\ output[n + i] \in Frames
        BY <1>2, <4>1 DEF ChunksInOrder
      <4>3. \A j \in 1..Len(output) : j <= n => output[j] < output[n + i]
        <5> TAKE j \in 1..Len(output)
        <5>1. j <= n => j < n + i
          BY <2>3, <4>1
        <5> QED
          BY <4>1, <5>1 DEF ChunksInOrder
      <4> QED
        BY <2>2, <2>7, <4>1, <4>2, <4>3
    <3>2. \A i, j \in 1..Len(output') : i < j => output'[i] < output'[j]
      <4> SUFFICES ASSUME NEW i \in 1..Len(output'), NEW j \in 1..Len(output'), i < j
                   PROVE  output'[i] < output'[j]
        OBVIOUS
      <4>1. n + i < n + j
        BY <1>2, <2>3, <2>4
      <4> QED
        BY <2>5, <4>1 DEF ChunksInOrder
    <3>3. cur' # 0 => /\ newest' < cur' /\ cur' <= decoded'
                      /\ \A i \in 1..Len(output') : output'[i] < cur'
      <4> SUFFICES ASSUME cur # 0
                   PROVE  /\ newest' < cur /\ cur <= decoded
                          /\ \A i \in 1..Len(output') : output'[i] < cur
        BY <2>2
      <4>1. cur \in Frames /\ cur <= decoded /\ newest < cur
            /\ \A i \in 1..Len(output) : output[i] < cur
        BY <1>1, <1>2, MaxFramesOK DEF ChunksInOrder, Frames
      <4> QED
        BY <2>5, <2>7, <4>1
    <3>4. \A i \in 1..Len(queue') :
            /\ newest' < queue'[i] /\ queue'[i] <= decoded' /\ cur' < queue'[i]
            /\ \A j \in 1..Len(output') : output'[j] < queue'[i]
      BY <1>2, <2>2, <2>5, <2>7 DEF ChunksInOrder
    <3>5. \A i, j \in 1..Len(queue') : i < j => queue'[i] < queue'[j]
      BY <2>2 DEF ChunksInOrder
    <3> QED
      BY <3>1, <3>2, <3>3, <3>4, <3>5 DEF ChunksInOrder
  <2> QED
    BY <2>2, <2>6, <2>8, <2>9, <2>10
<1>13. CASE PumpTakes
  <2>1. CASE queue = <<>>
    BY <1>1, <1>2, <1>3, <1>13, <2>1 DEF PumpTakes, PumpPlaces, rxVars
  <2>2. CASE queue # <<>>
    <3>1. /\ cur = 0 /\ cur' = Head(queue) /\ queue' = Tail(queue)
          /\ UNCHANGED <<rx, fill, decoded, newest, wake, pump, failed, output, offered, current>>
      BY <1>13, <2>2 DEF PumpTakes, rxVars
    <3>2. /\ Tail(queue) \in Seq(Frames) /\ Len(Tail(queue)) = Len(queue) - 1
          /\ \A i \in 1..Len(Tail(queue)) : Tail(queue)[i] = queue[i + 1]
      BY <1>1, <2>2, HeadTailProperties
    <3>3. 1 \in 1..Len(queue) /\ Head(queue) = queue[1]
      BY <1>1, <1>2, <2>2, EmptySeq
    <3>4. \A i \in 1..Len(queue') : /\ i + 1 \in 1..Len(queue) /\ 1 < i + 1
                                    /\ queue'[i] = queue[i + 1]
      BY <1>2, <3>1, <3>2
    <3>5. V4l2TypeOK'
      BY <1>1, <1>2, <3>1, <3>2, <3>3, QueuesOK, MaxFramesOK DEF V4l2TypeOK, Frames
    <3>6. ChunksInOrder'
      <4>1. \A i \in 1..Len(queue') : cur' < queue'[i]
        BY <3>1, <3>3, <3>4 DEF ChunksInOrder
      <4>2. \A i \in 1..Len(queue') :
              /\ newest' < queue'[i] /\ queue'[i] <= decoded'
              /\ \A j \in 1..Len(output') : output'[j] < queue'[i]
        BY <3>1, <3>4 DEF ChunksInOrder
      <4>3. \A i, j \in 1..Len(queue') : i < j => queue'[i] < queue'[j]
        <5> TAKE i, j \in 1..Len(queue')
        <5>1. i < j => i + 1 < j + 1
          BY <1>2, <3>1, <3>2
        <5> QED
          BY <3>4, <5>1 DEF ChunksInOrder
      <4>4. /\ newest' < cur' /\ cur' <= decoded'
            /\ \A i \in 1..Len(output') : output'[i] < cur'
        BY <3>1, <3>3 DEF ChunksInOrder
      <4> QED
        BY <3>1, <4>1, <4>2, <4>3, <4>4 DEF ChunksInOrder
    <3> QED
      BY <1>2, <3>1, <3>5, <3>6 DEF Delivers
  <2> QED
    BY <2>1, <2>2
<1>14. ASSUME NEW accepted \in BOOLEAN, PumpSubmits(accepted)
       PROVE  Goal
  <2>1. /\ cur # 0 /\ cur' = 0 /\ offered' = cur
        /\ accepted => Len(output) < KOutput
        /\ output' = IF accepted THEN Append(output, cur) ELSE output
        /\ UNCHANGED <<rx, fill, decoded, newest, queue, wake, pump, failed, current>>
    BY <1>14 DEF PumpSubmits, rxVars, queueVars
  <2>2. cur \in Frames
    BY <1>1, <2>1, MaxFramesOK DEF Frames
  <2>3. CASE accepted
    <3>1. /\ output' \in Seq(Frames) /\ Len(output') = Len(output) + 1
          /\ \A i \in 1..Len(output) : output'[i] = output[i]
          /\ output'[Len(output) + 1] = cur
      BY <1>1, <2>1, <2>2, <2>3, AppendProperties
    <3>2. \A i \in 1..Len(output') :
            \/ i = Len(output') /\ output'[i] = cur
            \/ i \in 1..Len(output) /\ output'[i] = output[i]
      BY <1>2, <3>1
    <3>3. V4l2TypeOK'
      BY <1>1, <1>2, <2>1, <2>3, <3>1, QueuesOK, MaxFramesOK DEF V4l2TypeOK
    <3>4. ChunksInOrder'
      <4>1. \A i \in 1..Len(output') : newest' < output'[i] /\ output'[i] <= decoded'
        BY <2>1, <3>2 DEF ChunksInOrder
      <4>2. \A i, j \in 1..Len(output') : i < j => output'[i] < output'[j]
        <5> TAKE i, j \in 1..Len(output')
        <5>1. i < j => i \in 1..Len(output)
          BY <1>2, <3>1
        <5> QED
          BY <1>2, <2>1, <3>1, <3>2, <5>1 DEF ChunksInOrder
      <4>3. \A i \in 1..Len(queue') :
              /\ newest' < queue'[i] /\ queue'[i] <= decoded' /\ cur' < queue'[i]
              /\ \A j \in 1..Len(output') : output'[j] < queue'[i]
        BY <1>2, <2>1, <3>2, MaxFramesOK DEF ChunksInOrder, Frames
      <4>4. \A i, j \in 1..Len(queue') : i < j => queue'[i] < queue'[j]
        BY <2>1 DEF ChunksInOrder
      <4> QED
        BY <2>1, <4>1, <4>2, <4>3, <4>4 DEF ChunksInOrder
    <3> QED
      BY <1>2, <2>1, <3>3, <3>4 DEF Delivers
  <2>4. CASE ~accepted
    <3>1. V4l2TypeOK'
      BY <1>1, <1>2, <2>1, <2>4, MaxFramesOK DEF V4l2TypeOK
    <3>2. ChunksInOrder'
      BY <1>2, <2>1, <2>4, MaxFramesOK DEF ChunksInOrder, Frames
    <3> QED
      BY <1>2, <2>1, <3>1, <3>2 DEF Delivers
  <2> QED
    BY <2>3, <2>4
<1> QED
  BY <1>4, <1>5, <1>6, <1>7, <1>8, <1>9, <1>10, <1>11, <1>12, <1>13, <1>14 DEF V4l2Rx, Pump

LEMMA V4l2Step ==
  ASSUME IInv, V4l2Next
  PROVE  CountersOK' /\ DisplayInv' /\ V4l2TypeOK' /\ V4l2Inv' /\ (shown <= Taken)' /\ Refines
<1> USE DEF V4l2Inv
<1>0. V4l2Inv /\ CountersOK /\ DisplayInv /\ V4l2TypeOK /\ backend = "v4l2"
  BY DEF IInv, V4l2Next, TypeOK
<1>1. UNCHANGED <<swVars, vaVars, glVars, backend>>
  BY DEF V4l2Next
<1>2. /\ UNCHANGED <<pending, displayed, inFlight, pendingSurf, currentSurf>>
      /\ Taken = current /\ Taken' = current'
  BY <1>0, <1>1 DEF swVars, poolVars, vaVars, Taken
<1>3. /\ current \in 0..MaxFrames /\ current \in Nat /\ newest \in 0..MaxFrames
      /\ newest \in Nat /\ shown \in Nat /\ shown <= current
      /\ OtherBuffer \in Buffers /\ 0 \in 0..MaxFrames
  BY <1>0, <1>2, MaxFramesOK
     DEF IInv, V4l2TypeOK, CountersOK, DisplayInv, KmsTypeOK, Buffers
<1>4. ASSUME UNCHANGED kmsVars
      PROVE  DisplayInv' /\ EndedSame /\ UNCHANGED <<disp, got, queued, onScreen, prev, shown>>
  BY <1>0, <1>4 DEF DisplayInv, KmsTypeOK, kmsVars, EndedSame
<1>5. CASE (V4l2Rx \/ Pump \/ PumpEnds) /\ UNCHANGED kmsVars
  <2>1. /\ V4l2TypeOK' /\ CountersOK' /\ ChunksInOrder' /\ Delivers
        /\ rx' \in {"idle", "nudge"} /\ fill' = None
        /\ current' = current /\ newest <= newest'
    BY <1>0, <1>5, ChunksStep
  <2>2. newest' \in Nat /\ current' <= newest'
    BY <1>0, <1>3, <2>1, MaxFramesOK DEF CountersOK
  <2> QED
    BY <1>0, <1>2, <1>3, <1>4, <1>5, <2>1, <2>2, RefinesIf
<1>6. CASE AcquireCapture /\ Takes(OtherBuffer)
  <2>1. current' = newest /\ UNCHANGED <<rxVars, queueVars, pumpVars>>
    BY <1>6 DEF AcquireCapture
  <2>2. V4l2TypeOK' /\ CountersOK' /\ ChunksInOrder'
    BY <1>0, <1>3, <2>1
       DEF V4l2TypeOK, CountersOK, ChunksInOrder, rxVars, queueVars, pumpVars
  <2>3. DisplayInv'
    BY <1>0, <1>3, <1>6, DisplayStep DEF Takes
  <2>4. /\ got' = OtherBuffer /\ UNCHANGED <<queued, onScreen, prev, shown>> /\ EndedSame
    BY <1>6 DEF Takes, PrerollTakes, CommitTakes, EndedSame
  <2>5. UNCHANGED <<rx, fill, newest>>
    BY <2>1 DEF rxVars
  <2> QED
    BY <1>0, <1>2, <1>3, <2>1, <2>2, <2>3, <2>4, <2>5, RefinesIf
<1>7. CASE /\ \/ PrerollGivesBack \/ SceneReleases \/ RenderStarts(HasFreshCapture)
              \/ CommitQueued(current) \/ DisplayAlone
           /\ UNCHANGED <<rxVars, v4Vars>>
  <2>1. V4l2TypeOK' /\ CountersOK' /\ ChunksInOrder'
    BY <1>0, <1>7
       DEF V4l2TypeOK, CountersOK, ChunksInOrder, rxVars, v4Vars, queueVars, pumpVars
  <2>2. UNCHANGED <<rx, fill, newest, current>>
    BY <1>7 DEF rxVars, v4Vars
  <2>3. DisplayInv'
    BY <1>0, <1>3, <1>7, DisplayStep
  <2>4. {got', queued', onScreen', prev'} \subseteq {OtherBuffer, None}
    BY <1>0, <1>7
       DEF PrerollGivesBack, SceneReleases, RenderStarts, CommitQueued, DisplayAlone,
           CommitFails, Flip, FlipHandled, Quit
  <2>5. shown' = shown \/ (shown' = current /\ EndedSame)
    BY <1>7
       DEF PrerollGivesBack, SceneReleases, RenderStarts, CommitQueued, DisplayAlone,
           CommitFails, Flip, FlipHandled, Quit, EndedSame
  <2>6. EndedSame \/ (disp' = "done" /\ shown' = shown)
    BY <1>7
       DEF PrerollGivesBack, SceneReleases, RenderStarts, CommitQueued, DisplayAlone,
           CommitFails, Flip, FlipHandled, Quit, EndedSame
  <2>7. shown' <= Taken' /\ (shown' = shown \/ (shown' > shown /\ shown' <= Taken))
    BY <1>2, <1>3, <2>2, <2>5
  <2> QED
    BY <1>0, <1>2, <1>3, <2>1, <2>2, <2>3, <2>4, <2>6, <2>7, RefinesIf
<1> QED
  BY <1>5, <1>6, <1>7 DEF V4l2Next, V4l2Display

(***************************************************************************)
(* All of them together.                                                   *)
(***************************************************************************)
LEMMA IInvInit == Init => IInv
<1> SUFFICES ASSUME Init PROVE IInv
  OBVIOUS
<1>1. /\ PoolInv /\ IngestInv /\ VaapiInv /\ CountersOK
  BY SoftwareInitOK, VaapiInitOK DEF Init
<1>2. 0 \in 0..MaxFrames
  BY MaxFramesOK
<1>3. V4l2TypeOK
  <2>1. <<>> \in Seq(Frames) /\ Len(<<>>) = 0
    BY EmptySeq
  <2>2. Len(queue) <= KMaxQueue /\ Len(output) <= KOutput
    BY <2>1, QueuesOK DEF Init, V4l2Init
  <2>3. wake \in BOOLEAN /\ failed \in BOOLEAN
    BY DEF Init, V4l2Init
  <2> QED
    BY <1>2, <2>1, <2>2, <2>3 DEF Init, V4l2Init, V4l2TypeOK, PumpPlaces
<1>4. /\ rx = "idle" /\ fill = None /\ newest = 0 /\ decoded = 0
      /\ pending = None /\ displayed = None /\ inFlight = {}
      /\ pendingSurf = None /\ currentSurf = None /\ borrowed.frame = 0
      /\ queue = <<>> /\ output = <<>> /\ cur = 0 /\ current = 0
      /\ drawing = FALSE /\ drawn = 0 /\ lastSeq = 0
  BY DEF Init, DecodeInit, SoftwareInit, VaapiInit, V4l2Init
<1>5. /\ disp = "preroll" /\ flipPending = FALSE /\ got = None /\ queued = None
      /\ onScreen = None /\ prev = None /\ shown = 0
  BY DEF Init, KmsInit
<1>6. DisplayInv
  BY <1>2, <1>5 DEF DisplayInv, KmsTypeOK, Places
<1>7. TypeOK
  BY <1>1, <1>2, <1>3, <1>4, <1>6
     DEF Init, TypeOK, DisplayInv, PoolInv, VaapiInv
<1>8. shown <= Taken
  BY <1>4, <1>5, BackendsOK DEF Init, Taken, FrameIn
<1>9. SoftwareInv
  BY <1>1, <1>4, <1>5 DEF SoftwareInv
<1>10. VaapiPathInv
  BY <1>1, <1>4, <1>5 DEF VaapiPathInv
<1>11. GlInv
  BY <1>1, <1>4, <1>5 DEF GlInv
<1>12. V4l2Inv
  <2>1. ChunksInOrder
    BY <1>4 DEF ChunksInOrder
  <2> QED
    BY <1>4, <1>5, <2>1 DEF V4l2Inv
<1> QED
  BY <1>1, <1>6, <1>7, <1>8, <1>9, <1>10, <1>11, <1>12 DEF IInv

LEMMA IInvStep ==
  ASSUME IInv, [Next]_vars, KRetain >= 2
  PROVE  IInv' /\ Refines
<1>0. TypeOK
  BY DEF IInv
<1> DEFINE DecodeOK == /\ rx \in {"idle", "pool", "pick", "fill", "nudge"}
                       /\ fill \in Buffers \cup {None}
\* TypeOK from the parts that the steps establish.
<1>1. ASSUME DecodeOK', CountersOK', DisplayInv', SoftwareTypeOK', VaapiTypeOK', V4l2TypeOK',
             backend' = backend, drawing' \in BOOLEAN, drawn' \in 0..MaxFrames,
             lastSeq' \in 0..MaxFrames
      PROVE  TypeOK'
  <2>1. decoded' \in 0..MaxFrames /\ newest' \in 0..MaxFrames
    BY <1>1, MaxFramesOK DEF CountersOK
  <2> QED
    BY <1>0, <1>1, <2>1 DEF TypeOK, DisplayInv
<1>2. UNCHANGED swVars => SoftwareTypeOK'
  BY <1>0 DEF TypeOK, SoftwareTypeOK, swVars, poolVars, gpuVars
<1>3. UNCHANGED vaVars => VaapiTypeOK'
  BY <1>0 DEF TypeOK, VaapiTypeOK, vaVars
<1>4. UNCHANGED v4Vars => V4l2TypeOK'
  BY <1>0 DEF TypeOK, V4l2TypeOK, v4Vars, queueVars, pumpVars
<1>5. UNCHANGED glVars =>
        drawing' \in BOOLEAN /\ drawn' \in 0..MaxFrames /\ lastSeq' \in 0..MaxFrames
  BY <1>0 DEF TypeOK, glVars
<1>6. CASE SoftwareNext
  <2>1. backend = "software" /\ UNCHANGED <<vaVars, v4Vars, glVars, backend>>
    BY <1>6 DEF SoftwareNext
  <2>2. CountersOK' /\ DisplayInv' /\ SoftwareInv' /\ (shown <= Taken)' /\ Refines
    BY <1>6, <2>1, SoftwareRxStep, SoftwareDisplayStep DEF SoftwareNext
  <2>3. DecodeOK' /\ SoftwareTypeOK'
    BY <2>2 DEF SoftwareInv, PoolInv, Buffers
  <2> QED
    BY <1>1, <1>3, <1>4, <1>5, <2>1, <2>2, <2>3 DEF IInv
<1>7. CASE GlNext
  <2>1. backend = "gpu" /\ UNCHANGED <<vaVars, v4Vars, backend>>
    BY <1>7 DEF GlNext
  <2>2. CountersOK' /\ DisplayInv' /\ GlInv' /\ (shown <= Taken)' /\ Refines
    BY <1>7, GlStep
  <2>3. DecodeOK' /\ SoftwareTypeOK'
    BY <2>2 DEF GlInv, IngestInv, Buffers
  <2>4. borrowed.frame \in 0..MaxFrames /\ borrowed.seq \in 0..MaxFrames
    BY <1>0 DEF TypeOK, SoftwareTypeOK
  <2>5. drawing' \in BOOLEAN /\ drawn' \in 0..MaxFrames /\ lastSeq' \in 0..MaxFrames
    BY <1>0, <1>5, <1>7, <2>4
       DEF GlNext, GlDisplay, GlBorrow, GlSwap, GlFails, glVars, TypeOK
  <2> QED
    BY <1>1, <1>3, <1>4, <2>1, <2>2, <2>3, <2>5 DEF IInv
<1>8. CASE VaapiNext
  <2>1. backend = "vaapi" /\ UNCHANGED <<swVars, v4Vars, glVars, backend>>
    BY <1>8 DEF VaapiNext
  <2>2. CountersOK' /\ DisplayInv' /\ VaapiPathInv' /\ (shown <= Taken)' /\ Refines
    BY <1>8, VaapiStep
  <2>3. DecodeOK' /\ VaapiTypeOK'
    BY <2>2 DEF VaapiPathInv, VaapiInv, Buffers
  <2> QED
    BY <1>1, <1>2, <1>4, <1>5, <2>1, <2>2, <2>3 DEF IInv
<1>9. CASE V4l2Next
  <2>1. backend = "v4l2" /\ UNCHANGED <<swVars, vaVars, glVars, backend>>
    BY <1>9 DEF V4l2Next
  <2>2. CountersOK' /\ DisplayInv' /\ V4l2TypeOK' /\ V4l2Inv' /\ (shown <= Taken)' /\ Refines
    BY <1>9, V4l2Step
  <2>3. DecodeOK'
    BY <2>2 DEF V4l2Inv, Buffers
  <2> QED
    BY <1>1, <1>2, <1>3, <1>5, <2>1, <2>2, <2>3 DEF IInv
<1>10. CASE UNCHANGED vars
  <2> USE <1>10 DEF vars, rxVars, swVars, poolVars, gpuVars, vaVars, v4Vars, queueVars, pumpVars,
                    kmsVars, glVars
  <2>1. CountersOK' /\ DisplayInv' /\ (shown <= Taken)' /\ Refines
    BY DEF IInv, CountersOK, DisplayInv, KmsTypeOK, Taken, FrameIn, Refines, Source!fvars
  <2>2. TypeOK'
    BY <1>0, <1>2, <1>3, <1>4, <2>1 DEF TypeOK, DisplayInv
  <2>3. SoftwareInv => SoftwareInv'
    BY DEF SoftwareInv, PoolInv, SoftwareTypeOK
  <2>4. GlInv => GlInv'
    BY DEF GlInv, IngestInv, SoftwareTypeOK
  <2>5. VaapiPathInv => VaapiPathInv'
    BY DEF VaapiPathInv, VaapiInv, VaapiTypeOK, Recent, Pinned, FrameIn
  <2>6. V4l2Inv => V4l2Inv'
    BY DEF V4l2Inv, ChunksInOrder
  <2> QED
    BY <2>1, <2>2, <2>3, <2>4, <2>5, <2>6 DEF IInv
<1> QED
  BY <1>6, <1>7, <1>8, <1>9, <1>10 DEF Next, Over

(***************************************************************************)
(* The theorems.                                                           *)
(***************************************************************************)
LEMMA Held == IInv => HeldFramesAreWhole
<1> SUFFICES ASSUME IInv PROVE HeldFramesAreWhole
  OBVIOUS
<1> USE BuffersDistinct, BufferIsOne, NoneIsNoSlot, NoneIsNoSurface
<1>1. backend \in {"software", "gpu", "vaapi", "v4l2"}
  BY BackendsOK DEF IInv, TypeOK
<1>2. CASE backend = "software"
  <2>1. SoftwareInv
    BY <1>2 DEF IInv
  <2>2. HeldBuffers \subseteq inFlight \cup {pending, displayed, None}
    BY <2>1 DEF SoftwareInv, HeldBuffers
  <2>3. \A b \in inFlight \cup {pending, displayed} : b = None \/ b \in Slots
    BY <2>1 DEF SoftwareInv, PoolInv, SoftwareTypeOK
  <2> QED
    BY <2>1, <2>2, <2>3 DEF SoftwareInv, PoolInv, HeldFramesAreWhole
<1>3. CASE backend = "vaapi"
  <2>1. VaapiPathInv /\ VaapiInv
    BY <1>3 DEF IInv, VaapiPathInv
  <2>2. \A s : Recent(s, 2) => s \in Pinned
    BY <2>1, PinnedIs DEF Recent, Pinned, VaapiInv, VaapiTypeOK
  <2>3. currentSurf = None \/ currentSurf \in Pinned
    BY <2>1, CurrentIsPinned
  <2>4. \A s \in HeldBuffers : s = None \/ (s \in Pinned /\ s \in Surfaces)
    BY <2>1, <2>2, <2>3 DEF VaapiPathInv, VaapiInv, VaapiTypeOK, HeldBuffers, Pinned
  <2> QED
    BY <2>1, <2>4 DEF VaapiInv, HeldFramesAreWhole
<1>4. CASE backend \in {"gpu", "v4l2"}
  <2>1. HeldBuffers \subseteq {OtherBuffer, None} /\ fill = None
    BY <1>4 DEF IInv, GlInv, IngestInv, V4l2Inv, HeldBuffers
  <2> QED
    BY <2>1 DEF HeldFramesAreWhole
<1> QED
  BY <1>1, <1>2, <1>3, <1>4

\* Two buffers at most are in flight, one of them the last handed out, and one
\* is pending: of four, one is free.
LEMMA Free ==
  ASSUME IInv, KBufs >= 4 PROVE SlotAlwaysFree
<1> SUFFICES ASSUME rx = "pick" PROVE FreeSlots # {}
  BY DEF SlotAlwaysFree
<1>1. backend \in {"software", "gpu", "vaapi", "v4l2"}
  BY BackendsOK DEF IInv, TypeOK
<1>2. SoftwareInv /\ DisplayInv
  BY <1>1 DEF IInv, GlInv, IngestInv, VaapiPathInv, VaapiInv, V4l2Inv
<1>3. PICK x : inFlight \subseteq {displayed, x}
  <2>1. CASE queued # None
    BY <1>2, <2>1, NoneIsNoSlot DEF DisplayInv, SoftwareInv, PoolInv, SoftwareTypeOK
  <2>2. CASE queued = None /\ onScreen = got
    BY <1>2, <2>2, NoneIsNoSlot DEF SoftwareInv, PoolInv, SoftwareTypeOK
  <2>3. CASE queued = None /\ prev = None
    BY <1>2, <2>3, NoneIsNoSlot DEF SoftwareInv, PoolInv, SoftwareTypeOK
  <2> QED
    BY <1>2, <2>1, <2>2, <2>3 DEF DisplayInv
<1>4. {0, 1, 2, 3} \subseteq Slots
  BY KBufsOK DEF Slots
<1>5. PICK b \in {0, 1, 2, 3} : b # displayed /\ b # x /\ b # pending
  OBVIOUS
<1> QED
  BY <1>3, <1>4, <1>5 DEF FreeSlots

(***************************************************************************)
(* The chunks of the V4L2 adapter: the half of NewestChunkFed that is a    *)
(* matter of safety.                                                       *)
(***************************************************************************)
\* Until the pump fails, the newest chunk has been offered to the inner source,
\* is in the pump's hand or is the last of the queue.
NewestChunkKept ==
  backend = "v4l2" /\ ~failed =>
    decoded = offered \/ decoded = cur \/ (queue # <<>> /\ decoded = queue[Len(queue)])

\* What is on its way to the inner source is newer than what it was offered.
OfferedInv ==
  backend = "v4l2" =>
    /\ offered <= decoded
    /\ cur # 0 => offered < cur
    /\ \A i \in 1..Len(queue) : offered < queue[i]

\* A chunk joins the queue at its end, whatever the queue had to drop.
LEMMA PushedLast ==
  ASSUME queue \in Seq(Frames), Len(queue) <= KMaxQueue, NEW chunk \in Frames
  PROVE  Pushed(chunk) # <<>> /\ Pushed(chunk)[Len(Pushed(chunk))] = chunk
<1> DEFINE old == IF Len(queue) >= KMaxQueue THEN Tail(queue) ELSE queue
<1>1. old \in Seq(Frames)
  BY EmptySeq, LenProperties, QueuesOK, HeadTailProperties
<1>2. Pushed(chunk) = Append(old, chunk)
  BY DEF Pushed
<1>3. /\ Len(Append(old, chunk)) = Len(old) + 1 /\ Append(old, chunk)[Len(old) + 1] = chunk
      /\ Len(old) \in Nat /\ Append(old, chunk) \in Seq(Frames)
  BY <1>1, AppendProperties, LenProperties
<1> HIDE DEF old
<1> QED
  BY <1>2, <1>3, EmptySeq

LEMMA OfferedStep ==
  ASSUME IInv, OfferedInv, [Next]_vars
  PROVE  OfferedInv'
<1> SUFFICES ASSUME backend' = "v4l2"
             PROVE  /\ offered' <= decoded'
                    /\ cur' # 0 => offered' < cur'
                    /\ \A i \in 1..Len(queue') : offered' < queue'[i]
  BY DEF OfferedInv
<1>1. /\ queue \in Seq(Frames) /\ Len(queue) <= KMaxQueue /\ Len(queue) \in Nat
      /\ decoded \in Nat /\ offered \in Nat /\ cur \in Nat /\ MaxFrames \in Nat
      /\ \A i \in 1..Len(queue) : queue[i] \in Nat
  BY LenProperties, ElementOfSeq, MaxFramesOK DEF IInv, TypeOK, V4l2TypeOK, Frames
<1>2. backend = "v4l2"
  BY DEF Next, SoftwareNext, GlNext, VaapiNext, V4l2Next, Over, vars
<1>3. /\ offered <= decoded
      /\ cur # 0 => offered < cur
      /\ \A i \in 1..Len(queue) : offered < queue[i]
  BY <1>2 DEF OfferedInv
<1>4. /\ cur # 0 => cur <= decoded
      /\ \A i \in 1..Len(queue) : cur < queue[i]
  BY <1>2 DEF IInv, V4l2Inv, ChunksInOrder
<1>5. CASE Submit
  <2>1. /\ decoded' = decoded + 1 /\ decoded < MaxFrames /\ queue' = Pushed(decoded')
        /\ UNCHANGED <<cur, offered>>
    BY <1>5 DEF Submit, NextFrame, pumpVars
  <2>2. decoded' \in Frames
    BY <1>1, <2>1, MaxFramesOK DEF Frames
  <2>3. PICK k \in {0, 1} : \A i \in 1..Len(queue') :
          queue'[i] = decoded' \/ (i + k \in 1..Len(queue) /\ queue'[i] = queue[i + k])
    BY <1>1, <2>1, <2>2, PushedIs
  <2>4. offered' < decoded'
    BY <1>1, <1>3, <2>1
  <2>5. \A i \in 1..Len(queue') : offered' < queue'[i]
    BY <1>3, <2>1, <2>3, <2>4
  <2> QED
    BY <1>1, <1>3, <2>1, <2>4, <2>5
<1>6. CASE PumpTakes
  <2>1. CASE queue = <<>>
    <3>1. UNCHANGED <<queue, cur, offered, decoded>>
      BY <1>6, <2>1 DEF PumpTakes, rxVars
    <3> QED
      BY <1>3, <3>1
  <2>2. CASE queue # <<>>
    <3>1. /\ cur' = Head(queue) /\ queue' = Tail(queue) /\ UNCHANGED <<decoded, offered>>
      BY <1>6, <2>2 DEF PumpTakes, rxVars
    <3>2. /\ Head(queue) = queue[1] /\ Len(Tail(queue)) = Len(queue) - 1 /\ Len(queue) >= 1
          /\ \A i \in 1..Len(Tail(queue)) : Tail(queue)[i] = queue[i + 1]
      BY <1>1, <2>2, HeadTailProperties, EmptySeq
    <3>3. cur' = queue[1] /\ 1 \in 1..Len(queue)
      BY <1>1, <3>1, <3>2
    <3>4. \A i \in 1..Len(queue') : i + 1 \in 1..Len(queue) /\ queue'[i] = queue[i + 1]
      BY <1>1, <3>1, <3>2
    <3>5. offered' < cur'
      BY <1>3, <3>1, <3>3
    <3>6. \A i \in 1..Len(queue') : offered' < queue'[i]
      BY <1>3, <3>1, <3>4
    <3> QED
      BY <1>3, <3>1, <3>5, <3>6
  <2> QED
    BY <2>1, <2>2
<1>7. ASSUME NEW accepted \in BOOLEAN, PumpSubmits(accepted)
      PROVE  /\ offered' <= decoded'
             /\ cur' # 0 => offered' < cur'
             /\ \A i \in 1..Len(queue') : offered' < queue'[i]
  <2>1. cur # 0 /\ cur' = 0 /\ offered' = cur /\ UNCHANGED <<decoded, queue>>
    BY <1>7 DEF PumpSubmits, rxVars, queueVars
  <2> QED
    BY <1>4, <2>1
<1>8. CASE UNCHANGED <<offered, cur, queue>> /\ decoded' \in {decoded, decoded + 1}
  <2>1. offered' <= decoded'
    BY <1>1, <1>3, <1>8
  <2> QED
    BY <1>3, <1>8, <2>1
<1>9. CASE SubmitIgnored
  BY <1>8, <1>9 DEF SubmitIgnored, NextFrame, v4Vars, queueVars, pumpVars
<1>10. CASE Nudge \/ PumpPolls \/ PumpDrains \/ PumpFails \/ PumpDriving \/ PumpWaits \/ PumpEnds
  BY <1>8, <1>10 DEF Nudge, PumpPolls, PumpDrains, PumpFails, PumpDriving, PumpDrives, PumpWaits,
                     PumpEnds, rxVars, queueVars, pumpVars
<1>11. CASE V4l2Display
  BY <1>8, <1>11 DEF V4l2Display, AcquireCapture, rxVars, v4Vars, queueVars, pumpVars
<1>12. CASE UNCHANGED vars
  BY <1>8, <1>12 DEF vars, rxVars, v4Vars, queueVars, pumpVars
<1>13. V4l2Next \/ UNCHANGED vars
  BY <1>2 DEF Next, SoftwareNext, GlNext, VaapiNext, Over
<1> QED
  BY <1>5, <1>6, <1>7, <1>9, <1>10, <1>11, <1>12, <1>13 DEF V4l2Next, V4l2Rx, Pump

LEMMA NewestChunkStep ==
  ASSUME IInv, OfferedInv, NewestChunkKept, [Next]_vars
  PROVE  NewestChunkKept'
<1> SUFFICES ASSUME backend' = "v4l2", ~failed'
             PROVE  \/ decoded' = offered' \/ decoded' = cur'
                    \/ queue' # <<>> /\ decoded' = queue'[Len(queue')]
  BY DEF NewestChunkKept
<1>1. /\ queue \in Seq(Frames) /\ Len(queue) <= KMaxQueue /\ Len(queue) \in Nat
      /\ decoded \in Nat /\ offered \in Nat
      /\ \A i \in 1..Len(queue) : queue[i] \in Nat
  BY LenProperties, ElementOfSeq, MaxFramesOK DEF IInv, TypeOK, V4l2TypeOK, Frames
<1>2. backend = "v4l2"
  BY DEF Next, SoftwareNext, GlNext, VaapiNext, V4l2Next, Over, vars
<1>3. CASE Submit
  <2>1. decoded' = decoded + 1 /\ decoded < MaxFrames /\ queue' = Pushed(decoded')
    BY <1>3 DEF Submit, NextFrame
  <2>2. decoded' \in Frames
    BY <1>1, <2>1, MaxFramesOK DEF Frames
  <2> QED
    BY <1>1, <2>1, <2>2, PushedLast
<1>4. CASE PumpTakes
  <2>1. CASE queue = <<>>
    BY <1>2, <1>4, <2>1 DEF PumpTakes, NewestChunkKept, rxVars
  <2>2. CASE queue # <<>>
    <3>1. /\ cur = 0 /\ cur' = Head(queue) /\ queue' = Tail(queue)
          /\ UNCHANGED <<decoded, offered, failed>>
      BY <1>4, <2>2 DEF PumpTakes, rxVars
    <3>2. /\ Head(queue) = queue[1] /\ Len(Tail(queue)) = Len(queue) - 1 /\ Len(queue) >= 1
          /\ Tail(queue) \in Seq(Frames)
          /\ \A i \in 1..Len(Tail(queue)) : Tail(queue)[i] = queue[i + 1]
      BY <1>1, <2>2, HeadTailProperties, EmptySeq
    <3>3. CASE Len(queue) = 1
      <4>1. decoded = offered \/ decoded = 0 \/ decoded = queue[1]
        BY <1>2, <3>1, <3>3 DEF NewestChunkKept
      <4>2. offered < queue[1] /\ queue[1] <= decoded /\ 0 < queue[1]
        BY <1>2, <3>1, <3>3 DEF OfferedInv, IInv, V4l2Inv, ChunksInOrder
      <4> QED
        <5>1. queue[1] \in Nat
          BY <1>1, <3>3
        <5>2. decoded = queue[1]
          BY <1>1, <4>1, <4>2, <5>1
        <5> QED
          BY <3>1, <3>2, <5>2
    <3>4. CASE Len(queue) # 1
      <4>1. Len(queue) - 1 \in 1..Len(queue') /\ Len(queue') = Len(queue) - 1
        BY <1>1, <3>1, <3>2, <3>4
      <4>2. queue'[Len(queue')] = queue[Len(queue)]
        BY <1>1, <3>1, <3>2, <4>1
      <4>3. decoded = offered \/ decoded = 0 \/ decoded = queue[Len(queue)]
        BY <1>2, <3>1 DEF NewestChunkKept
      <4>4. 1 \in 1..Len(queue) /\ offered < queue[1] /\ queue[1] <= decoded /\ 0 < queue[1]
        BY <1>1, <1>2, <3>1, <3>2 DEF OfferedInv, IInv, V4l2Inv, ChunksInOrder
      <4>5. queue' # <<>>
        BY <4>1, EmptySeq
      <4> QED
        <5>1. queue[1] \in Nat
          BY <1>1, <4>4
        <5>2. decoded = queue[Len(queue)]
          BY <1>1, <4>3, <4>4, <5>1
        <5> QED
          BY <3>1, <4>2, <4>5, <5>2
    <3> QED
      BY <3>3, <3>4
  <2> QED
    BY <2>1, <2>2
<1>5. ASSUME NEW accepted \in BOOLEAN, PumpSubmits(accepted)
      PROVE  \/ decoded' = offered' \/ decoded' = cur'
             \/ queue' # <<>> /\ decoded' = queue'[Len(queue')]
  <2>1. cur # 0 /\ offered' = cur /\ UNCHANGED <<decoded, queue, failed>>
    BY <1>5 DEF PumpSubmits, rxVars, queueVars
  <2>2. offered < cur /\ cur <= decoded
    BY <1>2, <2>1 DEF OfferedInv, IInv, V4l2Inv, ChunksInOrder
  <2>3. cur \in Nat /\ offered \in Nat
    BY MaxFramesOK DEF IInv, TypeOK, V4l2TypeOK
  <2> QED
    BY <1>1, <1>2, <2>1, <2>2, <2>3 DEF NewestChunkKept
<1>6. CASE UNCHANGED <<decoded, offered, cur, queue, failed>>
  BY <1>2, <1>6 DEF NewestChunkKept
<1>7. CASE SubmitIgnored
  BY <1>7 DEF SubmitIgnored, v4Vars, pumpVars
<1>8. CASE PumpFails
  BY <1>8 DEF PumpFails
<1>9. CASE Nudge \/ PumpPolls \/ PumpDrains \/ PumpDriving \/ PumpWaits \/ PumpEnds
  BY <1>6, <1>9 DEF Nudge, PumpPolls, PumpDrains, PumpDriving, PumpDrives, PumpWaits, PumpEnds,
                    rxVars, queueVars, pumpVars
<1>10. CASE V4l2Display
  BY <1>6, <1>10 DEF V4l2Display, AcquireCapture, rxVars, v4Vars, queueVars, pumpVars
<1>11. CASE UNCHANGED vars
  BY <1>6, <1>11 DEF vars, rxVars, v4Vars, queueVars, pumpVars
<1>12. V4l2Next \/ UNCHANGED vars
  BY <1>2 DEF Next, SoftwareNext, GlNext, VaapiNext, Over
<1> QED
  BY <1>3, <1>4, <1>5, <1>7, <1>8, <1>9, <1>10, <1>11, <1>12 DEF V4l2Next, V4l2Rx, Pump

LEMMA OffersGoUp ==
  ASSUME OfferedInv, [Next]_vars
  PROVE  offered' = offered \/ offered' > offered
<1>1. CASE V4l2Next
  <2>1. backend = "v4l2"
    BY <1>1 DEF V4l2Next
  <2>2. ASSUME NEW accepted \in BOOLEAN, PumpSubmits(accepted) PROVE offered' > offered
    BY <2>1, <2>2 DEF OfferedInv, PumpSubmits
  <2> QED
    BY <1>1, <2>2
       DEF V4l2Next, V4l2Rx, Submit, SubmitIgnored, Nudge, Pump, PumpPolls, PumpDrains, PumpFails,
           PumpDriving, PumpDrives, PumpTakes, PumpWaits, PumpEnds, V4l2Display, AcquireCapture,
           v4Vars, pumpVars
<1>2. CASE SoftwareNext \/ GlNext \/ VaapiNext \/ UNCHANGED vars
  BY <1>2 DEF SoftwareNext, GlNext, VaapiNext, vars, v4Vars, pumpVars
<1> QED
  BY <1>1, <1>2 DEF Next, Over

\* Every step keeps the types, when the ring keeps the frame on the screen and
\* the one that replaces it.
THEOREM TypeCorrect ==
  ASSUME KRetain >= 2 PROVE Spec => []TypeOK
<1>1. IInv /\ [Next]_vars => IInv'
  BY IInvStep
<1>2. IInv => TypeOK
  BY DEF IInv
<1> QED
  BY <1>1, <1>2, IInvInit, PTL DEF Spec

\* No buffer or surface that is on the screen, on its way there or about to be
\* handed out is ever written to, by any of the four backends.
THEOREM FramesAreWhole ==
  ASSUME KRetain >= 2 PROVE Spec => []HeldFramesAreWhole
<1>1. IInv /\ [Next]_vars => IInv'
  BY IInvStep
<1> QED
  BY <1>1, IInvInit, Held, PTL DEF Spec

\* The four buffers of the code are enough, whatever the order in which frames
\* are decoded, taken, flipped to and released.
THEOREM FourBuffersAreEnough ==
  ASSUME KRetain >= 2, KBufs >= 4 PROVE Spec => []SlotAlwaysFree
<1>1. IInv /\ [Next]_vars => IInv'
  BY IInvStep
<1>2. IInv => SlotAlwaysFree
  BY Free
<1> QED
  BY <1>1, <1>2, IInvInit, PTL DEF Spec

\* Every backend is a FrameSource, as far as safety goes: the display thread
\* takes the newest frame, shows only what it took and never goes back.
THEOREM RefinesSource ==
  ASSUME KRetain >= 2 PROVE Spec => Source!SourceSafety
<1>1. Init => Source!SourceInit
  BY BackendsOK DEF Init, DecodeInit, SoftwareInit, VaapiInit, V4l2Init, KmsInit,
                    Source!SourceInit, Taken, FrameIn
<1>2. IInv /\ [Next]_vars => IInv' /\ [Source!SourceNext]_(Source!fvars)
  BY IInvStep DEF Refines
<1> QED
  BY <1>1, <1>2, IInvInit, PTL DEF Spec, Source!SourceSafety
\* The chunk of the last frame before a pause is never what the V4L2 adapter's
\* bounded queue drops, nor lost between the queue and the driver.
THEOREM NewestChunkNotDropped ==
  ASSUME KRetain >= 2 PROVE Spec => []NewestChunkKept
<1> DEFINE Inv == IInv /\ OfferedInv /\ NewestChunkKept
<1>1. Inv /\ [Next]_vars => Inv'
  BY IInvStep, OfferedStep, NewestChunkStep
<1>2. Init => OfferedInv /\ NewestChunkKept
  BY EmptySeq DEF Init, DecodeInit, V4l2Init, OfferedInv, NewestChunkKept
<1> QED
  BY <1>1, <1>2, IInvInit, PTL DEF Spec

\* The driver is given the chunks in the order in which they came: what EAGAIN
\* makes the pump hold back is never overtaken, nor given twice.
THEOREM ChunksAreFedInOrder ==
  ASSUME KRetain >= 2 PROVE Spec => [][offered' # offered => offered' > offered]_vars
<1> DEFINE Inv == IInv /\ OfferedInv
<1>1. Inv /\ [Next]_vars => Inv'
  BY IInvStep, OfferedStep
<1>2. Init => OfferedInv
  BY EmptySeq DEF Init, DecodeInit, V4l2Init, OfferedInv
<1>3. Inv /\ [Next]_vars => [offered' # offered => offered' > offered]_vars
  BY OffersGoUp
<1> QED
  BY <1>1, <1>2, <1>3, IInvInit, PTL DEF Spec
=============================================================================
