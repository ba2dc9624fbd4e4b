---------------------------- MODULE VaapiSource ----------------------------
(***************************************************************************)
(* src/src/vaapi_decoder_source.cpp over src/src/vaapi_decoder.cpp: frames *)
(* decoded by the GPU into the surfaces of a fixed libav pool.  Nothing is *)
(* copied: the surface itself is shown.  What keeps the codec from writing *)
(* into it again is a reference to its AVFrame, held in pending_ until the *)
(* display thread takes it and then in retained_, the ring of the last     *)
(* KRetain frames taken.                                                   *)
(***************************************************************************)
EXTENDS DecodeThread, Sequences, SequencesExt

CONSTANTS
  Surfaces,  \* the surfaces of the codec's pool
  KRetain    \* kRetain, 4 in the code

ASSUME KRetainOK == KRetain \in Nat
ASSUME NoneIsNoSurface == None \notin Surfaces

VARIABLES
  pendingSurf,  \* the surface of pending_, None when not pending_.valid
  currentSurf,  \* the surface taken last (current_fb_ or current_native_)
  retained,     \* retained_: the surfaces it pins, oldest first
  surface       \* surface[s]: the frame in s, 0 while the GPU writes it

vaVars == <<pendingSurf, currentSurf, retained, surface>>

VaapiTypeOK ==
  /\ pendingSurf \in Surfaces \cup {None}
  /\ currentSurf \in Surfaces \cup {None}
  /\ retained \in Seq(Surfaces)
  /\ surface \in [Surfaces -> 0..MaxFrames]

VaapiInit ==
  /\ pendingSurf = None
  /\ currentSurf = None
  /\ retained = <<>>
  /\ surface = [s \in Surfaces |-> 0]

\* The surfaces a live AVFrame refers to: the pool gives out only the others.
Pinned == ToSet(retained) \cup {pendingSurf}

(***************************************************************************)
(* The decode thread.                                                      *)
(***************************************************************************)
\* The codec starts a frame in a surface nobody refers to.
DecodeInto(s) ==
  /\ s \in Surfaces \ Pinned
  /\ NextFrame("fill")
  /\ fill' = s
  /\ surface' = [surface EXCEPT ![s] = 0]
  /\ UNCHANGED <<newest, pendingSurf, currentSurf, retained>>

\* Mutant: a frame that was not taken yet is kept.
OnDecoded_KeepsOld ==
  /\ rx = "fill"
  /\ fill \in Surfaces
  /\ surface' = [surface EXCEPT ![fill] = decoded]
  /\ pendingSurf' = IF pendingSurf = None THEN fill ELSE pendingSurf
  /\ Published
  /\ UNCHANGED <<currentSurf, retained>>

\* on_decoded(): replaces pending_, whose reference is dropped.
OnDecoded ==
  /\ rx = "fill"
  /\ fill \in Surfaces
  /\ surface' = [surface EXCEPT ![fill] = decoded]
  /\ pendingSurf' = fill
  /\ Published
  /\ UNCHANGED <<currentSurf, retained>>

\* The surface cannot be exported, or its AVFrame not cloned.
DeliverFails ==
  /\ rx = "fill"
  /\ fill \in Surfaces
  /\ surface' = [surface EXCEPT ![fill] = decoded]
  /\ GiveUp
  /\ UNCHANGED <<pendingSurf, currentSurf, retained>>

VaapiRx ==
  \/ \E s \in Surfaces : DecodeInto(s)
  \/ OnDecoded
  \/ DeliverFails

(***************************************************************************)
(* The display thread: acquire() or acquire_native_frame().  release() and *)
(* release_native_frame() do nothing.                                      *)
(***************************************************************************)
\* Mutant: only the frame taken last is kept.
Trimmed_Newest(ring) == <<Last(ring)>>

Trimmed(ring) == IF Len(ring) > KRetain THEN Tail(ring) ELSE ring

FrameIn(s) == IF s = None THEN 0 ELSE surface[s]

\* Takes the pending frame, in surface s.
TakePending(s) ==
  /\ pendingSurf # None
  /\ s = pendingSurf
  /\ currentSurf' = s
  /\ retained' = Trimmed(Append(retained, s))
  /\ pendingSurf' = None
  /\ UNCHANGED <<rxVars, surface>>

\* Nothing is pending, or what is pending is of another size or cannot be made
\* a framebuffer, and is dropped: the frame taken last stays.
KeepCurrent ==
  /\ pendingSurf' = None
  /\ newest' = IF pendingSurf = None THEN newest ELSE FrameIn(currentSurf)
  /\ UNCHANGED <<rx, fill, decoded, currentSurf, retained, surface>>

\* acquire() and acquire_native_frame() hand out surface s.
AcquireSurface(s) ==
  \/ TakePending(s)
  \/ currentSurf # None /\ s = currentSurf /\ KeepCurrent

\* They have nothing to hand out.
AcquireNoSurface == currentSurf = None /\ KeepCurrent

HasFreshSurface == pendingSurf # None
=============================================================================
