------------------------- MODULE WaylandVideoProofs -------------------------
(***************************************************************************)
(* Proofs about the video path of carlinkit-wayland, for any number of     *)
(* frames, surfaces and shared-memory buffers: its invariant, and that its *)
(* steps are steps of FrameSource.                                         *)
(***************************************************************************)
EXTENDS WaylandVideo, SourceProofs

(***************************************************************************)
(* The invariant.                                                          *)
(***************************************************************************)
\* The loop draws only when the compositor has asked for a frame, and then the
\* compositor holds nothing old.
LoopInv ==
  /\ rendering # "no" => ~framePending
  /\ framePending \/ \A s \in Surfaces : age[s] <= MaxAge

\* What the compositor holds since n commits is among the n frames taken last,
\* or n + 1 once the next one is taken.
AllRecent(extra) == \A s \in Surfaces : age[s] > 0 => Recent(s, age[s] + extra)

DmabufInv ==
  /\ VaapiInv
  /\ rendering # "commit" => AllRecent(0)
  /\ rendering = "commit" => /\ currentSurf # None
                             /\ AllRecent(1)
                             /\ age[currentSurf] > 0 => AllRecent(0)

ShmInv ==
  /\ IngestInv
  /\ pendingSurf = None /\ currentSurf = None
  /\ \A s \in Surfaces : age[s] = 0

IInv ==
  /\ TypeOK
  /\ CountersOK
  /\ LoopInv
  /\ shown <= Taken
  /\ path = "dmabuf" => DmabufInv
  /\ path = "shm" => ShmInv

(***************************************************************************)
(* The steps of FrameSource, by what they do.                              *)
(***************************************************************************)
Refines == [Source!SourceNext]_(Source!fvars)

LEMMA RefinesIf ==
  ASSUME \/ Delivers /\ UNCHANGED <<Taken, shown, ended>>
         \/ newest' = newest /\ Taken' \in {Taken, newest} /\ UNCHANGED <<shown, ended>>
         \/ newest' \in {newest, Taken} /\ UNCHANGED <<Taken, shown, ended>>
         \/ /\ UNCHANGED <<newest, Taken, ended>>
            /\ shown' = shown \/ (shown' > shown /\ shown' <= Taken)
         \/ UNCHANGED <<newest, Taken, shown>> /\ ended' = TRUE
  PROVE  Refines
<1> USE DEF Refines, Delivers, Source!SourceNext, Source!fvars
<1>1. (newest' \in Frames /\ newest' > newest) /\ UNCHANGED <<Taken, shown, ended>>
      => Source!Deliver
  BY DEF Source!Deliver
<1>2. newest' = newest /\ Taken' = newest /\ UNCHANGED <<shown, ended>> => Source!Take
  BY DEF Source!Take
<1>3. newest' = Taken /\ UNCHANGED <<Taken, shown, ended>> => Source!Withdraw
  BY DEF Source!Withdraw
<1>4. UNCHANGED <<newest, Taken, ended>> /\ shown' > shown /\ shown' <= Taken => Source!Show
  BY DEF Source!Show
<1>5. UNCHANGED <<newest, Taken, shown>> /\ ended' = TRUE => Source!End
  BY DEF Source!End
<1> QED
  BY <1>1, <1>2, <1>3, <1>4, <1>5

(***************************************************************************)
(* The types of the loop's own variables.                                  *)
(***************************************************************************)
FlagsOK ==
  /\ owed \in BOOLEAN /\ evt \in BOOLEAN /\ framePending \in BOOLEAN /\ ended \in BOOLEAN

LoopTypeOK ==
  /\ shown \in 0..MaxFrames
  /\ lastShmSeq \in 0..MaxFrames
  /\ rendering \in {"no", "take", "commit"}
  /\ age \in [Surfaces -> 0..(MaxAge + 1)]
  /\ shmHeld \subseteq ShmSlots

DecodeOK == rx \in {"idle", "fill"} /\ fill \in Surfaces \cup {None}

LEMMA TypeParts ==
  CountersOK =>
    (TypeOK <=> /\ path \in Paths /\ FlagsOK /\ LoopTypeOK /\ DecodeOK
                /\ SoftwareTypeOK /\ VaapiTypeOK)
<1>1. CountersOK => decoded \in 0..MaxFrames /\ newest \in 0..MaxFrames
  BY MaxFramesOK DEF CountersOK
<1>2. FlagsOK <=> {owed, evt, framePending, ended} \subseteq BOOLEAN
  BY Zenon DEF FlagsOK
<1> QED
  BY <1>1, <1>2 DEF TypeOK, LoopTypeOK, DecodeOK

LEMMA FlagsStep ==
  ASSUME FlagsOK, Next PROVE FlagsOK'
<1> USE DEF FlagsOK
<1>1. CASE Decode
  BY <1>1 DEF Decode, loopVars
<1>2. CASE Wake
  BY <1>2 DEF Wake
<1>3. CASE Loop(OnVideoEvent)
  BY <1>3 DEF Loop, OnVideoEvent
<1>4. CASE Loop(OnFrameReady)
  BY <1>4 DEF Loop, OnFrameReady
<1>5. CASE Loop(Releases)
  BY <1>5 DEF Loop, Releases, OnShmRelease, OnSurfaceRelease
<1>6. CASE Present
  BY <1>6
     DEF Present, Loop, TakeFrame, TakeNothing, PresentShm, PresentSurface, Committed,
         NotCommitted
<1>7. CASE Quit /\ UNCHANGED <<rxVars, swVars, vaVars, path, owed>>
  BY <1>7 DEF Quit, loopVars
<1>8. CASE Over
  BY <1>8 DEF Over, vars, loopVars
<1> QED
  BY <1>1, <1>2, <1>3, <1>4, <1>5, <1>6, <1>7, <1>8 DEF Next

(***************************************************************************)
(* The initial states.                                                     *)
(***************************************************************************)
LEMMA IInvInit == Init => IInv
<1> SUFFICES ASSUME Init PROVE IInv
  OBVIOUS
<1>1. /\ rendering = "no" /\ framePending = FALSE /\ shown = 0 /\ lastShmSeq = 0
      /\ age = [s \in Surfaces |-> 0] /\ shmHeld = {} /\ path \in Paths
      /\ DecodeInit /\ SoftwareInit /\ VaapiInit /\ FlagsOK
  BY DEF Init, FlagsOK
<1>2. VaapiInv /\ CountersOK /\ IngestInv
  BY <1>1, SoftwareInitOK, VaapiInitOK
<1>3. SoftwareTypeOK /\ VaapiTypeOK
  BY <1>2 DEF VaapiInv, IngestInv
<1>4. pendingSurf = None /\ currentSurf = None /\ borrowed.frame = 0
  BY <1>1 DEF VaapiInit, SoftwareInit
<1>5. DecodeOK
  BY <1>1 DEF DecodeInit, DecodeOK
<1>6. 0 \in 0..MaxFrames /\ 0 \in 0..(MaxAge + 1) /\ 0 <= MaxAge
  BY MaxFramesOK, MaxAgeOK
<1>7. LoopTypeOK
  BY <1>1, <1>6 DEF LoopTypeOK
<1>8. \A s \in Surfaces : age[s] = 0
  BY <1>1
<1>9. LoopInv
  BY <1>1, <1>6, <1>8 DEF LoopInv
<1>10. shown <= Taken
  BY <1>1, <1>4 DEF Taken, FrameIn
<1>11. DmabufInv
  BY <1>1, <1>2, <1>8 DEF DmabufInv, AllRecent
<1>12. ShmInv
  BY <1>2, <1>4, <1>8 DEF ShmInv
<1> QED
  BY <1>1, <1>2, <1>3, <1>5, <1>7, <1>9, <1>10, <1>11, <1>12, TypeParts DEF IInv

(***************************************************************************)
(* The steps.                                                              *)
(***************************************************************************)
\* What a step has to establish, beside the flags.
CoreInv ==
  /\ CountersOK /\ DecodeOK /\ LoopTypeOK /\ SoftwareTypeOK /\ VaapiTypeOK
  /\ LoopInv
  /\ shown <= Taken
  /\ path = "dmabuf" => DmabufInv
  /\ path = "shm" => ShmInv

LEMMA CoreOf == IInv => CoreInv /\ FlagsOK /\ path \in {"dmabuf", "shm"}
BY TypeParts, PathsOK DEF IInv, CoreInv

LEMMA IInvNext ==
  ASSUME IInv, Next, path' = path, CoreInv'
  PROVE  IInv'
<1>1. FlagsOK'
  BY CoreOf, FlagsStep
<1>2. path' \in Paths
  BY DEF IInv, TypeOK
<1>3. decoded' \in 0..MaxFrames /\ newest' \in 0..MaxFrames
  BY MaxFramesOK DEF CoreInv, CountersOK
<1>4. {owed', evt', framePending', ended'} \subseteq BOOLEAN
  BY <1>1, Zenon DEF FlagsOK
<1>5. TypeOK'
  BY <1>2, <1>3, <1>4 DEF TypeOK, CoreInv, LoopTypeOK, DecodeOK
<1> QED
  BY <1>5 DEF IInv, CoreInv

\* Steps of the event loop that leave the source and its thread alone.
LEMMA SourceAlone ==
  ASSUME CoreInv, UNCHANGED <<rxVars, swVars, vaVars, path>>
  PROVE  /\ CountersOK' /\ DecodeOK' /\ SoftwareTypeOK' /\ VaapiTypeOK'
         /\ path = "dmabuf" => VaapiInv'
         /\ path = "shm" => IngestInv' /\ pendingSurf' = None /\ currentSurf' = None
         /\ \A s, n : Recent(s, n)' <=> Recent(s, n)
         /\ newest' = newest /\ Taken' = Taken /\ currentSurf' = currentSurf
<1> USE DEF rxVars, swVars, poolVars, gpuVars, vaVars
<1>1. CountersOK' /\ DecodeOK' /\ SoftwareTypeOK' /\ VaapiTypeOK'
  BY DEF CoreInv, CountersOK, DecodeOK, SoftwareTypeOK, VaapiTypeOK
<1>2. \A s, n : Recent(s, n)' <=> Recent(s, n)
  BY DEF Recent
<1>3. FrameIn(currentSurf)' = FrameIn(currentSurf)
  BY DEF FrameIn
<1>4. newest' = newest /\ Taken' = Taken /\ currentSurf' = currentSurf
  BY <1>3 DEF Taken
<1>5. path = "dmabuf" => VaapiInv'
  BY <1>1, <1>2, <1>3 DEF CoreInv, DmabufInv, VaapiInv, Pinned
<1>6. path = "shm" => IngestInv' /\ pendingSurf' = None /\ currentSurf' = None
  BY <1>1 DEF CoreInv, ShmInv, IngestInv
<1> QED
  BY <1>1, <1>2, <1>4, <1>5, <1>6

\* Steps that commit nothing: what is held only gets less.
LEMMA QuietStep ==
  ASSUME CoreInv, UNCHANGED <<rxVars, swVars, vaVars, path, shown, lastShmSeq>>,
         rendering' = rendering \/ (rendering # "commit" /\ rendering' \in {"no", "take"}),
         shmHeld' \subseteq shmHeld,
         age' \in [Surfaces -> 0..(MaxAge + 1)],
         \A s \in Surfaces : age'[s] \in {0, age[s]},
         LoopInv'
  PROVE  CoreInv'
<1>1. /\ CountersOK' /\ DecodeOK' /\ SoftwareTypeOK' /\ VaapiTypeOK'
      /\ path = "dmabuf" => VaapiInv'
      /\ path = "shm" => IngestInv' /\ pendingSurf' = None /\ currentSurf' = None
      /\ \A s, n : Recent(s, n)' <=> Recent(s, n)
      /\ newest' = newest /\ Taken' = Taken /\ currentSurf' = currentSurf
  BY SourceAlone
<1>2. LoopTypeOK'
  BY DEF CoreInv, LoopTypeOK
<1>3. \A n : (\A s \in Surfaces : age[s] > 0 => Recent(s, age[s] + n))
             => (\A s \in Surfaces : age'[s] > 0 => Recent(s, age'[s] + n))
  OBVIOUS
<1>4. (AllRecent(0) => AllRecent(0)') /\ (AllRecent(1) => AllRecent(1)')
  BY <1>1, <1>3 DEF AllRecent
<1>5. path = "dmabuf" => DmabufInv'
  <2> SUFFICES ASSUME path = "dmabuf" PROVE DmabufInv'
    OBVIOUS
  <2>1. VaapiInv /\ DmabufInv
    BY DEF CoreInv, DmabufInv
  <2>2. currentSurf # None => age'[currentSurf] \in {0, age[currentSurf]}
    BY <2>1, CurrentIsPinned
  <2> QED
    BY <1>1, <1>4, <2>1, <2>2 DEF DmabufInv
<1>6. path = "shm" => ShmInv'
  BY <1>1 DEF CoreInv, ShmInv
<1> QED
  BY <1>1, <1>2, <1>5, <1>6 DEF CoreInv

LEMMA HandlerStep ==
  ASSUME CoreInv,
         Wake \/ Loop(OnVideoEvent) \/ Loop(OnFrameReady) \/ Loop(Releases)
  PROVE  CoreInv' /\ Refines
<1>0. /\ age \in [Surfaces -> 0..(MaxAge + 1)] /\ LoopInv
      /\ \A s \in Surfaces : age[s] \in 0..(MaxAge + 1)
  BY DEF CoreInv, LoopTypeOK
<1>1. UNCHANGED <<rxVars, swVars, vaVars, path, ended, shown, lastShmSeq>>
  BY DEF Wake, Loop, OnVideoEvent, OnFrameReady, Releases, OnShmRelease, OnSurfaceRelease
<1>2. Refines
  BY <1>1, SourceAlone, RefinesIf
<1>3. CASE Wake
  <2>1. UNCHANGED <<framePending, rendering, age, shmHeld>>
    BY <1>3 DEF Wake
  <2>2. LoopInv'
    BY <1>0, <2>1 DEF LoopInv
  <2> QED
    BY <1>0, <1>1, <1>2, <2>1, <2>2, QuietStep
<1>4. CASE Loop(OnVideoEvent)
  <2>1. /\ rendering = "no" /\ rendering' \in {"no", "take"}
        /\ rendering' = "take" => ~framePending
        /\ UNCHANGED <<framePending, age, shmHeld>>
    BY <1>4 DEF Loop, OnVideoEvent, Handles, RenderIf
  <2>2. LoopInv'
    BY <1>0, <2>1 DEF LoopInv
  <2> QED
    BY <1>0, <1>1, <1>2, <2>1, <2>2, QuietStep
<1>5. CASE Loop(OnFrameReady)
  <2>1. /\ rendering = "no" /\ rendering' \in {"no", "take"}
        /\ framePending' = FALSE /\ \A s \in Surfaces : age[s] <= MaxAge
        /\ UNCHANGED <<age, shmHeld>>
    BY <1>5 DEF Loop, OnFrameReady, Handles, RenderIf
  <2>2. LoopInv'
    BY <1>0, <2>1 DEF LoopInv
  <2> QED
    BY <1>0, <1>1, <1>2, <2>1, <2>2, QuietStep
<1>6. ASSUME NEW b \in ShmSlots, Loop(OnShmRelease(b)) PROVE CoreInv'
  <2>1. /\ rendering = "no" /\ rendering' \in {"no", "take"}
        /\ rendering' = "take" => ~framePending
        /\ shmHeld' \subseteq shmHeld
        /\ UNCHANGED <<framePending, age>>
    BY <1>6 DEF Loop, OnShmRelease, Handles, RenderIf
  <2>2. LoopInv'
    BY <1>0, <2>1 DEF LoopInv
  <2> QED
    BY <1>0, <1>1, <2>1, <2>2, QuietStep
<1>7. ASSUME NEW s \in Surfaces, Loop(OnSurfaceRelease(s)) PROVE CoreInv'
  <2>1. /\ age' = [age EXCEPT ![s] = 0]
        /\ UNCHANGED <<framePending, rendering, shmHeld>>
    BY <1>7 DEF Loop, OnSurfaceRelease
  <2>2. \A t \in Surfaces : age'[t] = IF t = s THEN 0 ELSE age[t]
    BY <1>0, <2>1
  <2>3. age' \in [Surfaces -> 0..(MaxAge + 1)]
    BY <1>0, <2>1, MaxAgeOK
  <2>4. LoopInv'
    BY <1>0, <2>1, <2>2, MaxAgeOK DEF LoopInv
  <2> QED
    BY <1>1, <2>1, <2>2, <2>3, <2>4, QuietStep
<1> QED
  BY <1>2, <1>3, <1>4, <1>5, <1>6, <1>7 DEF Loop, Releases

\* The decode thread.
LEMMA DecodeStep ==
  ASSUME CoreInv, Decode
  PROVE  CoreInv' /\ Refines
<1>1. UNCHANGED <<path, ended, evt, framePending, rendering, lastShmSeq, age, shmHeld, shown>>
  BY DEF Decode, loopVars
<1>2. LoopTypeOK' /\ LoopInv'
  BY <1>1 DEF CoreInv, LoopTypeOK, LoopInv
<1>3. CASE path = "dmabuf" /\ VaapiRx /\ UNCHANGED swVars
  <2>1. VaapiInv /\ CountersOK /\ DmabufInv
    BY <1>3 DEF CoreInv, DmabufInv
  <2>2. /\ VaapiInv' /\ CountersOK' /\ Delivers
        /\ FrameIn(currentSurf)' = FrameIn(currentSurf)
        /\ UNCHANGED <<currentSurf, retained>>
    BY <1>3, <2>1, VaapiRxStep
  <2>3. Taken' = Taken /\ path # "shm"
    BY <1>1, <1>3, <2>2 DEF Taken
  <2>4. SoftwareTypeOK' /\ VaapiTypeOK' /\ DecodeOK'
    BY <1>3, <2>2
       DEF CoreInv, SoftwareTypeOK, swVars, poolVars, gpuVars, VaapiInv, DecodeOK
  <2>5. \A s, n : Recent(s, n)' <=> Recent(s, n)
    BY <2>2 DEF Recent
  <2>6. (AllRecent(0)' <=> AllRecent(0)) /\ (AllRecent(1)' <=> AllRecent(1))
    BY <1>1, <2>5 DEF AllRecent
  <2>7. DmabufInv'
    BY <1>1, <2>1, <2>2, <2>6 DEF DmabufInv
  <2> QED
    BY <1>1, <1>2, <2>2, <2>3, <2>4, <2>7, RefinesIf DEF CoreInv
<1>4. CASE path = "shm" /\ IngestRx /\ UNCHANGED vaVars
  <2>1. IngestInv /\ CountersOK /\ ShmInv
    BY <1>4 DEF CoreInv, ShmInv
  <2>2. IngestInv' /\ CountersOK' /\ Delivers /\ UNCHANGED borrowed
    BY <1>4, <2>1, IngestRxStep
  <2>3. Taken' = Taken /\ path # "dmabuf"
    BY <1>1, <1>4, <2>2 DEF Taken
  <2>4. SoftwareTypeOK' /\ VaapiTypeOK' /\ DecodeOK'
    BY <1>4, <2>2 DEF CoreInv, VaapiTypeOK, vaVars, IngestInv, DecodeOK
  <2>5. ShmInv'
    BY <1>1, <1>4, <2>1, <2>2 DEF ShmInv, vaVars
  <2> QED
    BY <1>1, <1>2, <2>2, <2>3, <2>4, <2>5, RefinesIf DEF CoreInv
<1> QED
  BY <1>3, <1>4 DEF Decode

(***************************************************************************)
(* The presentation.  The compositor holds nothing older than the ring as  *)
(* long as MaxAge < KRetain.                                               *)
(***************************************************************************)
LEMMA RecentIsPinned ==
  ASSUME VaapiInv, NEW s, NEW n, Recent(s, n)
  PROVE  s \in ToSet(retained)
BY PinnedIs DEF VaapiInv, VaapiTypeOK, Recent

LEMMA TakeSurfaceStep ==
  ASSUME CoreInv, MaxAge < KRetain, path = "dmabuf", rendering = "take",
         UNCHANGED <<path, ended, framePending, lastShmSeq, age, shmHeld, shown, swVars>>,
         \/ rendering' = "commit" /\ \E s \in Surfaces : AcquireSurface(s)
         \/ rendering' = "no" /\ AcquireNoSurface
  PROVE  CoreInv' /\ Refines
<1>1. /\ VaapiInv /\ CountersOK /\ LoopInv /\ shown <= Taken /\ Taken = FrameIn(currentSurf)
      /\ \A s \in Surfaces : age[s] > 0 => Recent(s, age[s])
      /\ \A s \in Surfaces : age[s] \in Nat /\ age[s] < KRetain
      /\ age \in [Surfaces -> 0..(MaxAge + 1)]
  <2>1. VaapiInv /\ CountersOK /\ LoopInv /\ shown <= Taken /\ Taken = FrameIn(currentSurf)
    BY DEF CoreInv, DmabufInv, Taken
  <2>2. \A s \in Surfaces : age[s] \in 0..(MaxAge + 1)
    BY DEF CoreInv, LoopTypeOK
  <2>3. \A s \in Surfaces : age[s] <= MaxAge
    BY <2>1 DEF LoopInv
  <2>4. \A s \in Surfaces : age[s] > 0 => Recent(s, age[s] + 0)
    BY DEF CoreInv, DmabufInv, AllRecent
  <2> QED
    BY <2>1, <2>2, <2>3, <2>4, MaxAgeOK, KRetainOK DEF CoreInv, LoopTypeOK
<1>2. LoopTypeOK' /\ LoopInv' /\ SoftwareTypeOK'
  BY <1>1 DEF CoreInv, LoopTypeOK, LoopInv, SoftwareTypeOK, swVars, poolVars, gpuVars
<1>3. VaapiInv' => DecodeOK' /\ VaapiTypeOK'
  BY DEF VaapiInv, DecodeOK
<1>4. ASSUME NEW s \in Surfaces, TakePending(s), rendering' = "commit"
      PROVE  CoreInv' /\ Refines
  <2>0. KRetain >= 1
    BY MaxAgeOK, KRetainOK
  <2>1. /\ VaapiInv' /\ CountersOK' /\ newest' = newest
        /\ FrameIn(currentSurf)' = newest
        /\ currentSurf' = s /\ s \in Surfaces
        /\ \A t : \A n \in Nat : n < KRetain /\ Recent(t, n) => Recent(t, n + 1)'
    BY <1>1, <1>4, <2>0, TakePendingStep
  <2>2. Taken' = newest
    BY <2>1 DEF Taken
  <2>3. FrameIn(currentSurf) <= newest /\ FrameIn(currentSurf) \in Nat /\ newest \in Nat
    <3>1. currentSurf # None => currentSurf \in Surfaces
      BY <1>1, CurrentIsPinned
    <3> QED
      BY <1>1, <3>1, MaxFramesOK DEF FrameIn, VaapiInv, VaapiTypeOK, CountersOK
  <2>4. shown' <= Taken'
    BY <1>1, <2>2, <2>3, MaxFramesOK DEF CoreInv, LoopTypeOK
  <2>5. \A t \in Surfaces : age'[t] > 0 => Recent(t, age[t] + 1)'
    BY <1>1, <2>1
  <2>6. AllRecent(1)'
    BY <2>5 DEF AllRecent
  <2>7. s \notin ToSet(retained)
    BY <1>1, <1>4 DEF TakePending, VaapiInv
  <2>8. ~(age[s] > 0)
    BY <1>1, <2>7, RecentIsPinned
  <2>9. DmabufInv'
    BY <1>4, <2>1, <2>6, <2>8, NoneIsNoSurface DEF DmabufInv
  <2> QED
    BY <1>2, <1>3, <2>1, <2>2, <2>4, <2>9, RefinesIf DEF CoreInv
<1>5. ASSUME KeepCurrent, \/ rendering' = "commit" /\ currentSurf # None
                          \/ rendering' = "no"
      PROVE  CoreInv' /\ Refines
  <2>1. /\ VaapiInv' /\ CountersOK'
        /\ newest' \in {newest, FrameIn(currentSurf)}
        /\ FrameIn(currentSurf)' = FrameIn(currentSurf)
        /\ UNCHANGED <<currentSurf, retained>>
    BY <1>1, <1>5, KeepCurrentStep
  <2>2. Taken' = Taken /\ newest' \in {newest, Taken} /\ shown' <= Taken'
    BY <1>1, <2>1 DEF Taken
  <2>3. \A s, n : Recent(s, n)' <=> Recent(s, n)
    BY <2>1 DEF Recent
  <2>4. \A s \in Surfaces : age[s] > 0 => Recent(s, age[s] + 0) /\ Recent(s, age[s] + 1)
    BY <1>1 DEF Recent, VaapiInv, VaapiTypeOK
  <2>5. AllRecent(0)' /\ AllRecent(1)'
    BY <2>3, <2>4 DEF AllRecent
  <2>6. DmabufInv'
    BY <1>5, <2>1, <2>5 DEF DmabufInv
  <2> QED
    BY <1>2, <1>3, <2>1, <2>2, <2>6, RefinesIf DEF CoreInv
<1> QED
  BY <1>4, <1>5 DEF AcquireSurface, AcquireNoSurface

LEMMA BorrowFrameStep ==
  ASSUME CoreInv, path = "shm", rendering = "take", rendering' = "commit",
         UNCHANGED <<path, ended, framePending, lastShmSeq, age, shmHeld, shown, vaVars>>,
         AcquireDecodedFrame
  PROVE  CoreInv' /\ Refines
<1>1. IngestInv /\ CountersOK /\ ShmInv /\ LoopInv /\ shown <= Taken /\ Taken = borrowed.frame
  BY DEF CoreInv, ShmInv, Taken
<1>2. IngestInv' /\ CountersOK' /\ newest' = newest /\ borrowed'.frame = newest
  BY <1>1, BorrowStep
<1>3. Taken' = newest
  BY <1>2 DEF Taken
<1>4. shown' <= Taken'
  BY <1>1, <1>3, MaxFramesOK
     DEF CoreInv, LoopTypeOK, IngestInv, SoftwareTypeOK, CountersOK
<1>5. LoopTypeOK' /\ LoopInv'
  BY <1>1 DEF CoreInv, LoopTypeOK, LoopInv
<1>6. SoftwareTypeOK' /\ VaapiTypeOK' /\ DecodeOK'
  BY <1>2 DEF CoreInv, VaapiTypeOK, vaVars, IngestInv, DecodeOK
<1>7. ShmInv' /\ path' # "dmabuf"
  BY <1>1, <1>2 DEF ShmInv, vaVars
<1> QED
  BY <1>2, <1>3, <1>4, <1>5, <1>6, <1>7, RefinesIf DEF CoreInv

\* A commit, or a frame that is skipped.
LEMMA CommitStep ==
  ASSUME CoreInv, Loop(PresentShm) \/ Loop(PresentSurface)
  PROVE  CoreInv' /\ Refines
<1>1. /\ rendering = "commit" /\ rendering' = "no"
      /\ UNCHANGED <<rxVars, swVars, vaVars, path, ended>>
  BY DEF Loop, PresentShm, PresentSurface
<1>2. /\ CountersOK' /\ DecodeOK' /\ SoftwareTypeOK' /\ VaapiTypeOK'
      /\ path = "dmabuf" => VaapiInv'
      /\ path = "shm" => IngestInv' /\ pendingSurf' = None /\ currentSurf' = None
      /\ \A s, n : Recent(s, n)' <=> Recent(s, n)
      /\ newest' = newest /\ Taken' = Taken /\ currentSurf' = currentSurf
  BY <1>1, SourceAlone
<1>3. /\ LoopInv /\ shown <= Taken /\ shown \in 0..MaxFrames
      /\ \A s \in Surfaces : age[s] \in 0..MaxAge
  <2>1. \A s \in Surfaces : age[s] \in 0..(MaxAge + 1) /\ age[s] <= MaxAge
    BY <1>1 DEF CoreInv, LoopTypeOK, LoopInv
  <2> QED
    BY <2>1, MaxAgeOK DEF CoreInv, LoopTypeOK
<1>4. ASSUME Loop(PresentShm) PROVE CoreInv' /\ Refines
  <2>1. /\ path = "shm" /\ age' = age /\ shmHeld' \subseteq ShmSlots
        /\ \/ lastShmSeq' = borrowed.seq /\ framePending' = TRUE /\ shown' = borrowed.frame
           \/ UNCHANGED <<lastShmSeq, framePending, shown>>
    BY <1>4 DEF Loop, PresentShm, Committed, NotCommitted, CoreInv, LoopTypeOK
  <2>2. Taken = borrowed.frame /\ borrowed.frame \in 0..MaxFrames /\ borrowed.seq \in 0..MaxFrames
    BY <2>1 DEF Taken, CoreInv, SoftwareTypeOK
  <2>3. LoopTypeOK'
    BY <1>1, <2>1, <2>2 DEF CoreInv, LoopTypeOK
  <2>4. LoopInv'
    BY <1>1, <1>3, <2>1 DEF LoopInv
  <2>5. shown' <= Taken' /\ (shown' = shown \/ (shown' > shown /\ shown' <= Taken))
    BY <1>2, <1>3, <2>1, <2>2, MaxFramesOK
  <2>6. Refines
    BY <1>1, <1>2, <2>5, RefinesIf
  <2>7. ShmInv'
    BY <1>2, <2>1 DEF CoreInv, ShmInv
  <2> QED
    BY <1>1, <1>2, <2>1, <2>3, <2>4, <2>5, <2>6, <2>7 DEF CoreInv
<1>5. ASSUME Loop(PresentSurface) PROVE CoreInv' /\ Refines
  <2>1. path = "dmabuf" /\ UNCHANGED <<lastShmSeq, shmHeld>>
    BY <1>5 DEF Loop, PresentSurface
  <2>2. /\ VaapiInv /\ currentSurf # None /\ currentSurf \in Surfaces
        /\ \A s \in Surfaces : age[s] > 0 => Recent(s, age[s] + 1)
        /\ age[currentSurf] > 0 => AllRecent(0)
        /\ Recent(currentSurf, 1)
    BY <1>1, <2>1, CurrentIsPinned DEF CoreInv, DmabufInv, VaapiInv, AllRecent
  <2>3. CASE age[currentSurf] > 0
    <3>1. UNCHANGED <<framePending, shown, age>>
      BY <1>5, <2>3 DEF Loop, PresentSurface, NotCommitted
    <3>2. LoopTypeOK' /\ LoopInv'
      BY <1>1, <1>3, <2>1, <3>1 DEF CoreInv, LoopTypeOK, LoopInv
    <3>3. AllRecent(0)'
      BY <1>2, <2>2, <2>3, <3>1 DEF AllRecent
    <3>4. DmabufInv'
      BY <1>1, <1>2, <2>1, <3>3 DEF DmabufInv
    <3>5. Refines
      BY <1>1, <1>2, <3>1, RefinesIf
    <3> QED
      BY <1>1, <1>2, <1>3, <2>1, <3>1, <3>2, <3>4, <3>5 DEF CoreInv
  <2>4. CASE ~(age[currentSurf] > 0)
    <3>1. /\ framePending' = TRUE /\ shown' = surface[currentSurf]
          /\ age' = [s \in Surfaces |-> IF s = currentSurf THEN 1
                                        ELSE IF age[s] > 0 THEN age[s] + 1 ELSE 0]
      BY <1>5, <2>4 DEF Loop, PresentSurface, Committed
    <3>2. Taken = surface[currentSurf] /\ surface[currentSurf] \in 0..MaxFrames
      BY <2>1, <2>2 DEF Taken, FrameIn, VaapiInv, VaapiTypeOK
    <3>3. shown' <= Taken' /\ (shown' = shown \/ (shown' > shown /\ shown' <= Taken))
      BY <1>2, <1>3, <3>1, <3>2, MaxFramesOK
    <3>4. age' \in [Surfaces -> 0..(MaxAge + 1)]
      BY <1>3, <3>1, MaxAgeOK
    <3>5. LoopTypeOK' /\ LoopInv'
      BY <1>1, <2>1, <3>1, <3>2, <3>4 DEF CoreInv, LoopTypeOK, LoopInv
    <3>6. \A s \in Surfaces : age'[s] > 0 => Recent(s, age'[s] + 0)
      BY <1>3, <2>2, <3>1
    <3>7. AllRecent(0)'
      BY <1>2, <3>6 DEF AllRecent
    <3>8. DmabufInv'
      BY <1>1, <1>2, <2>1, <3>7 DEF DmabufInv
    <3>9. Refines
      BY <1>1, <1>2, <3>3, RefinesIf
    <3> QED
      BY <1>1, <1>2, <2>1, <3>3, <3>5, <3>8, <3>9 DEF CoreInv
  <2> QED
    BY <2>3, <2>4
<1> QED
  BY <1>4, <1>5

LEMMA IInvStep ==
  ASSUME MaxAge < KRetain, IInv, [Next]_vars
  PROVE  IInv' /\ Refines
<1>1. CoreInv
  BY CoreOf
<1>2. CASE UNCHANGED vars
  <2>1. UNCHANGED <<rxVars, swVars, vaVars, path, ended, owed, evt, framePending, rendering,
                    lastShmSeq, age, shmHeld, shown>>
    BY <1>2 DEF vars, loopVars
  <2>2. CoreInv'
    BY <1>1, <2>1, QuietStep DEF CoreInv, LoopTypeOK, LoopInv
  <2>3. Refines
    BY <1>1, <2>1, SourceAlone, RefinesIf
  <2>4. TypeOK'
    <3>1. newest' = newest /\ rx' = rx /\ fill' = fill /\ decoded' = decoded
      BY <2>1 DEF rxVars
    <3> QED
      BY <2>1, <2>2, <3>1 DEF IInv, TypeOK, CoreInv
  <2> QED
    BY <2>2, <2>3, <2>4 DEF IInv, CoreInv
<1>3. CASE Next
  <2>1. path' = path
    BY <1>3
       DEF Next, Decode, Wake, Loop, Present, Quit, Over, vars, loopVars
  <2>2. CoreInv' /\ Refines
    <3>1. CASE Decode
      BY <1>1, <3>1, DecodeStep
    <3>2. CASE Wake \/ Loop(OnVideoEvent) \/ Loop(OnFrameReady) \/ Loop(Releases)
      BY <1>1, <3>2, HandlerStep
    <3>3. CASE TakeFrame /\ UNCHANGED <<path, owed, ended>>
      BY <1>1, <3>3, TakeSurfaceStep, BorrowFrameStep DEF TakeFrame
    <3>4. CASE TakeNothing /\ UNCHANGED <<path, owed, ended>>
      BY <1>1, <3>4, TakeSurfaceStep DEF TakeNothing
    <3>5. CASE Loop(PresentShm) \/ Loop(PresentSurface)
      BY <1>1, <3>5, CommitStep
    <3>6. CASE Quit /\ UNCHANGED <<rxVars, swVars, vaVars, path, owed>>
      <4>1. /\ UNCHANGED <<rxVars, swVars, vaVars, path, evt, framePending, rendering,
                           lastShmSeq, age, shmHeld, shown>>
            /\ ended' = TRUE
        BY <3>6 DEF Quit, loopVars
      <4>2. CoreInv'
        BY <1>1, <4>1, QuietStep DEF CoreInv, LoopTypeOK, LoopInv
      <4> QED
        BY <1>1, <4>1, <4>2, SourceAlone, RefinesIf
    <3>7. CASE Over
      <4>1. UNCHANGED <<rxVars, swVars, vaVars, path, ended, evt, framePending, rendering,
                        lastShmSeq, age, shmHeld, shown>>
        BY <3>7 DEF Over, vars, loopVars
      <4>2. CoreInv'
        BY <1>1, <4>1, QuietStep DEF CoreInv, LoopTypeOK, LoopInv
      <4> QED
        BY <1>1, <4>1, <4>2, SourceAlone, RefinesIf
    <3> QED
      BY <1>3, <3>1, <3>2, <3>3, <3>4, <3>5, <3>6, <3>7 DEF Next, Present
  <2> QED
    BY <1>3, <2>1, <2>2, IInvNext
<1> QED
  BY <1>2, <1>3

(***************************************************************************)
(* The theorems.  MaxAge < KRetain says that the compositor, when it asks  *)
(* for a frame, holds none that has left the ring of retained frames.      *)
(***************************************************************************)
LEMMA IInvAlways == ASSUME MaxAge < KRetain PROVE Spec => []IInv
<1>1. Init => IInv
  BY IInvInit
<1>2. IInv /\ [Next]_vars => IInv'
  BY IInvStep
<1> QED
  BY <1>1, <1>2, PTL DEF Spec

\* Every variable keeps its type: the loop's counters and the source's frame
\* numbers stay in their ranges, whichever sink is used.
THEOREM TypeCorrect == ASSUME MaxAge < KRetain PROVE Spec => []TypeOK
<1>1. IInv => TypeOK
  BY DEF IInv
<1> QED
  BY <1>1, IInvAlways, PTL

\* "the decoder keeps the slot pinned" (wayland_sink.cpp:89): with a ring of at
\* least as many frames as the compositor can still hold, no surface is written
\* while the compositor may read it or the next acquire may hand it out.
THEOREM SurfacesAreWhole ==
  ASSUME MaxAge < KRetain PROVE Spec => []HeldSurfacesAreWhole
<1>1. IInv => HeldSurfacesAreWhole
  <2> SUFFICES ASSUME IInv, NEW s \in Surfaces,
                      age[s] > 0 \/ s \in {pendingSurf, currentSurf}
               PROVE  s # fill /\ surface[s] # 0
    BY DEF HeldSurfacesAreWhole
  <2>1. CoreInv /\ path \in {"dmabuf", "shm"} /\ s # None
    BY CoreOf, NoneIsNoSurface
  <2>2. path = "dmabuf"
    BY <2>1, MaxAgeOK DEF CoreInv, ShmInv
  <2>3. VaapiInv /\ DmabufInv
    BY <2>1, <2>2 DEF CoreInv, DmabufInv
  <2>4. s \in Pinned
    <3>1. CASE age[s] > 0
      BY <2>3, <3>1, RecentIsPinned DEF DmabufInv, AllRecent, Pinned
    <3>2. CASE s = pendingSurf
      BY <3>2 DEF Pinned
    <3>3. CASE s = currentSurf
      BY <2>1, <2>3, <3>3, CurrentIsPinned
    <3> QED
      BY <3>1, <3>2, <3>3
  <2> QED
    BY <2>1, <2>3, <2>4 DEF VaapiInv
<1> QED
  BY <1>1, IInvAlways, PTL

\* Every step of the decode thread, the event loop and the compositor is a step
\* of FrameSource, or leaves its variables alone: the newest frame wins, and
\* the frame on the screen never goes back.
THEOREM RefinesSource == ASSUME MaxAge < KRetain PROVE Spec => Source!SourceSafety
<1>1. Init => Source!SourceInit
  BY DEF Init, DecodeInit, VaapiInit, SoftwareInit, Taken, FrameIn, Source!SourceInit
<1>2. IInv /\ [Next]_vars => [Source!SourceNext]_(Source!fvars)
  BY IInvStep DEF Refines
<1> QED
  BY <1>1, <1>2, IInvAlways, PTL DEF Spec, Source!SourceSafety
=============================================================================
