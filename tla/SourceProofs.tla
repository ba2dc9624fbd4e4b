---------------------------- MODULE SourceProofs ----------------------------
(***************************************************************************)
(* Proofs about the sources of frames, whatever the display thread does    *)
(* with the frames: invariants of the software source's two lanes and of   *)
(* the VAAPI source, and what each operation does to the newest frame and  *)
(* to the frame taken last.  The proofs about the two programs' video      *)
(* paths rest on these.                                                    *)
(***************************************************************************)
EXTENDS SoftwareSource, VaapiSource, SequenceTheorems, TLAPS

\* A frame being written is newer than every published one.
CountersOK ==
  /\ decoded \in 0..MaxFrames
  /\ newest \in 0..decoded
  /\ rx \in {"pool", "pick", "fill"} => newest < decoded

\* Surface s is among the last n that were taken and are still pinned.
Recent(s, n) == \E i \in 1..Len(retained) : retained[i] = s /\ Len(retained) - i < n

\* The surface being written is one that nobody refers to; the pending one is
\* the newest frame and has never been taken; the current one is pinned.
VaapiInv ==
  /\ VaapiTypeOK
  /\ rx \in {"idle", "fill"}
  /\ fill = None <=> rx = "idle"
  /\ fill # None => fill \in Surfaces \ Pinned
  /\ pendingSurf # None => pendingSurf \notin ToSet(retained) /\ surface[pendingSurf] = newest
  /\ \A s \in Surfaces \cap Pinned : surface[s] # 0
  /\ Len(retained) <= KRetain
  /\ currentSurf # None => Recent(currentSurf, 1)
  /\ FrameIn(currentSurf) <= newest

\* The same for the buffers of the pool, where what is not free is in flight,
\* pending, or the one handed out last.
PoolInv ==
  /\ SoftwareTypeOK
  /\ rx \in {"idle", "pool", "pick", "fill"}
  /\ fill = None <=> rx # "fill"
  /\ fill # None => fill \in Slots \ (inFlight \cup {pending, displayed})
  /\ pending # None => pending \notin inFlight \cup {displayed} /\ content[pending] = newest
  /\ \A b \in Slots \cap (inFlight \cup {pending, displayed}) : content[b] # 0
  /\ displayed # None => content[displayed] <= newest

\* The frame kept for a GPU stage is the newest, and none is borrowed before it
\* is there.
IngestInv ==
  /\ SoftwareTypeOK
  /\ rx = "idle" /\ fill = None
  /\ latest = newest
  /\ seq <= decoded
  /\ borrowed.frame <= newest
  /\ borrowed.seq <= seq

\* What a step of the decode thread may do to the newest frame.
Delivers == newest' = newest \/ (newest' \in Frames /\ newest' > newest)

(***************************************************************************)
(* The VAAPI source.                                                       *)
(***************************************************************************)
LEMMA PinnedIs ==
  ASSUME retained \in Seq(Surfaces)
  PROVE  /\ Len(retained) \in Nat
         /\ \A s : s \in ToSet(retained) <=> \E i \in 1..Len(retained) : retained[i] = s
         /\ \A i \in 1..Len(retained) : retained[i] \in Surfaces
BY LenProperties, ElementOfSeq DEF ToSet

\* The current surface is pinned.
LEMMA CurrentIsPinned ==
  ASSUME VaapiInv, currentSurf # None
  PROVE  currentSurf \in Surfaces \cap Pinned
BY PinnedIs DEF VaapiInv, VaapiTypeOK, Recent, Pinned

LEMMA VaapiInitOK == DecodeInit /\ VaapiInit => VaapiInv /\ CountersOK
<1> SUFFICES ASSUME DecodeInit, VaapiInit PROVE VaapiInv /\ CountersOK
  OBVIOUS
<1>1. <<>> \in Seq(Surfaces) /\ Len(<<>>) = 0
  BY EmptySeq
<1>2. retained = <<>> /\ pendingSurf = None /\ currentSurf = None /\ rx = "idle"
      /\ fill = None /\ newest = 0 /\ decoded = 0
  BY DEF DecodeInit, VaapiInit
<1>3. Surfaces \cap Pinned = {}
  BY <1>1, <1>2, PinnedIs, NoneIsNoSurface DEF Pinned
<1>4. VaapiTypeOK
  BY <1>1, <1>2, MaxFramesOK DEF VaapiInit, VaapiTypeOK
<1>5. FrameIn(currentSurf) <= newest
  BY <1>2 DEF FrameIn
<1>6. Len(retained) <= KRetain
  BY <1>1, <1>2, KRetainOK
<1>7. CountersOK
  BY <1>2, MaxFramesOK DEF CountersOK
<1> QED
  BY <1>2, <1>3, <1>4, <1>5, <1>6, <1>7 DEF VaapiInv

\* The decode thread leaves the frame taken last alone.
LEMMA VaapiRxStep ==
  ASSUME VaapiInv, CountersOK, VaapiRx
  PROVE  /\ VaapiInv' /\ CountersOK' /\ Delivers
         /\ FrameIn(currentSurf)' = FrameIn(currentSurf)
         /\ UNCHANGED <<currentSurf, retained>>
<1> USE DEF VaapiInv, CountersOK
<1>0. UNCHANGED <<currentSurf, retained>>
  BY DEF VaapiRx, DecodeInto, OnDecoded, DeliverFails
<1>1. \A s, n : Recent(s, n)' <=> Recent(s, n)
  BY <1>0 DEF Recent
<1>2. currentSurf # None => currentSurf \in Surfaces /\ currentSurf \in Pinned
  BY CurrentIsPinned
<1>3. \A i \in 1..Len(retained) : retained[i] \in Surfaces /\ retained[i] \in Pinned
  BY PinnedIs DEF VaapiTypeOK, Pinned
<1>4. ASSUME NEW s \in Surfaces, DecodeInto(s)
      PROVE  VaapiInv' /\ CountersOK' /\ Delivers /\ FrameIn(currentSurf)' = FrameIn(currentSurf)
  <2>1. /\ s \notin Pinned /\ rx' = "fill" /\ fill' = s /\ decoded' = decoded + 1
        /\ decoded < MaxFrames /\ newest' = newest /\ pendingSurf' = pendingSurf
        /\ surface' = [surface EXCEPT ![s] = 0]
    BY <1>4 DEF DecodeInto, NextFrame
  <2>2. Pinned' = Pinned
    BY <1>0, <2>1 DEF Pinned
  <2>3. CountersOK' /\ Delivers
    BY <2>1, MaxFramesOK DEF Delivers
  <2>4. VaapiTypeOK'
    BY <1>0, <2>1, MaxFramesOK DEF VaapiTypeOK
  <2>5. \A t \in Surfaces \cap Pinned : surface'[t] = surface[t]
    BY <2>1 DEF VaapiTypeOK
  <2>6. FrameIn(currentSurf)' = FrameIn(currentSurf)
    BY <1>0, <1>2, <2>5 DEF FrameIn
  <2>7. pendingSurf # None => pendingSurf \in Surfaces \cap Pinned
    BY DEF VaapiTypeOK, Pinned
  <2> QED
    BY <1>0, <1>1, <2>1, <2>2, <2>3, <2>4, <2>5, <2>6, <2>7, NoneIsNoSurface
<1>5. ASSUME rx = "fill", fill \in Surfaces,
             surface' = [surface EXCEPT ![fill] = decoded],
             rx' = "idle", fill' = None, decoded' = decoded,
             \/ pendingSurf' = fill /\ newest' = decoded
             \/ pendingSurf' = pendingSurf /\ newest' = newest
      PROVE  VaapiInv' /\ CountersOK' /\ Delivers /\ FrameIn(currentSurf)' = FrameIn(currentSurf)
  <2>1. CountersOK' /\ Delivers
    BY <1>5, MaxFramesOK DEF Delivers, Frames
  <2>2. VaapiTypeOK'
    BY <1>0, <1>5, MaxFramesOK DEF VaapiTypeOK
  <2>3. fill \notin Pinned /\ fill # None
    BY <1>5, NoneIsNoSurface
  <2>4. \A t \in Surfaces : surface'[t] = IF t = fill THEN decoded ELSE surface[t]
    BY <1>5 DEF VaapiTypeOK
  <2>5. FrameIn(currentSurf)' = FrameIn(currentSurf)
    BY <1>0, <1>2, <2>3, <2>4 DEF FrameIn
  <2>6. \A t \in Surfaces \cap Pinned' : t = fill \/ t \in Surfaces \cap Pinned
    BY <1>0, <1>5 DEF Pinned
  <2>7. decoded # 0 /\ newest <= newest'
    BY <1>5, MaxFramesOK
  <2>8. \A t \in Surfaces \cap Pinned' : surface'[t] # 0
    BY <2>4, <2>6, <2>7
  <2>9. pendingSurf' # None => pendingSurf' \notin ToSet(retained) /\ surface'[pendingSurf'] = newest'
    <3>1. CASE pendingSurf' = fill /\ newest' = decoded
      BY <1>5, <2>3, <2>4, <3>1 DEF Pinned
    <3>2. CASE pendingSurf' = pendingSurf /\ newest' = newest
      <4>1. pendingSurf # None => pendingSurf \in Surfaces /\ pendingSurf # fill
        BY <2>3 DEF VaapiTypeOK, Pinned
      <4> QED
        BY <2>4, <3>2, <4>1
    <3> QED
      BY <1>5, <3>1, <3>2
  <2>10. FrameIn(currentSurf)' <= newest'
    <3>1. FrameIn(currentSurf) \in Nat
      BY <1>2, MaxFramesOK DEF FrameIn, VaapiTypeOK
    <3> QED
      BY <2>1, <2>5, <2>7, <3>1, MaxFramesOK
  <2> QED
    BY <1>0, <1>1, <1>5, <2>1, <2>2, <2>5, <2>8, <2>9, <2>10
<1>6. CASE OnDecoded
  BY <1>5, <1>6 DEF OnDecoded, Published
<1>7. CASE DeliverFails
  BY <1>5, <1>7 DEF DeliverFails, GiveUp
<1> QED
  BY <1>0, <1>4, <1>6, <1>7 DEF VaapiRx

\* Taking the pending frame makes the newest frame the one taken last, and the
\* frames taken before it one older.
LEMMA TakePendingStep ==
  ASSUME VaapiInv, CountersOK, KRetain >= 1, NEW s, TakePending(s)
  PROVE  /\ VaapiInv' /\ CountersOK' /\ newest' = newest
         /\ FrameIn(currentSurf)' = newest
         /\ currentSurf' = s /\ s \in Surfaces
         /\ Recent(s, 1)'
         /\ \A t : \A n \in Nat : n < KRetain /\ Recent(t, n) => Recent(t, n + 1)'
<1> USE DEF VaapiInv, CountersOK
<1>1. /\ pendingSurf # None /\ s = pendingSurf /\ currentSurf' = s
      /\ retained' = Trimmed(Append(retained, s)) /\ pendingSurf' = None
      /\ UNCHANGED <<rx, fill, decoded, newest, surface>>
  BY DEF TakePending, rxVars
<1>2. s \in Surfaces /\ retained \in Seq(Surfaces) /\ s \notin ToSet(retained)
  BY <1>1 DEF VaapiTypeOK
<1>3. Len(retained) \in Nat
  BY <1>2, PinnedIs
<1> DEFINE ring == Append(retained, s)
<1>4. /\ ring \in Seq(Surfaces) /\ Len(ring) = Len(retained) + 1 /\ ring # <<>>
      /\ \A i \in 1..Len(retained) : ring[i] = retained[i]
      /\ ring[Len(retained) + 1] = s
  BY <1>2, AppendProperties
<1> HIDE DEF ring
\* The new ring is the old one with s at its end, without its first k frames.
<1>5. PICK k \in {0, 1} :
        /\ retained' \in Seq(Surfaces)
        /\ Len(retained') = Len(retained) + 1 - k
        /\ Len(retained') <= KRetain /\ Len(retained') >= 1
        /\ k = 1 => Len(retained) = KRetain
        /\ \A i \in 1..Len(retained') : retained'[i] = ring[i + k]
  <2>1. CASE Len(ring) > KRetain
    <3>1. retained' = Tail(ring)
      BY <1>1, <2>1 DEF Trimmed, ring
    <3>2. /\ Tail(ring) \in Seq(Surfaces) /\ Len(Tail(ring)) = Len(ring) - 1
          /\ \A i \in 1..Len(Tail(ring)) : Tail(ring)[i] = ring[i + 1]
      BY <1>4, HeadTailProperties
    <3> QED
      BY <1>3, <1>4, <2>1, <3>1, <3>2, KRetainOK
  <2>2. CASE ~(Len(ring) > KRetain)
    <3>1. retained' = ring
      BY <1>1, <2>2 DEF Trimmed, ring
    <3> QED
      BY <1>3, <1>4, <2>2, <3>1, KRetainOK
  <2> QED
    BY <2>1, <2>2
<1>6. \A i \in 1..Len(retained') :
        retained'[i] = IF i + k = Len(retained) + 1 THEN s ELSE retained[i + k]
  <2> TAKE i \in 1..Len(retained')
  <2>1. retained'[i] = ring[i + k]
    BY <1>5
  <2>2. i + k = Len(retained) + 1 \/ i + k \in 1..Len(retained)
    BY <1>3, <1>5
  <2> QED
    BY <1>4, <2>1, <2>2
<1>7. Recent(s, 1)'
  <2>1. Len(retained') \in 1..Len(retained') /\ retained'[Len(retained')] = s
    BY <1>3, <1>5, <1>6
  <2> QED
    BY <1>5, <2>1 DEF Recent
<1>8. ASSUME NEW t, NEW n \in Nat, n < KRetain, Recent(t, n)
      PROVE  Recent(t, n + 1)'
  <2>1. PICK i \in 1..Len(retained) : retained[i] = t /\ Len(retained) - i < n
    BY <1>8 DEF Recent
  <2>2. /\ i - k \in 1..Len(retained') /\ (i - k) + k = i
        /\ i # Len(retained) + 1 /\ Len(retained') - (i - k) < n + 1
    BY <1>3, <1>5, <1>8, <2>1, KRetainOK
  <2>3. retained'[i - k] = t
    BY <1>6, <2>1, <2>2
  <2> QED
    BY <2>2, <2>3 DEF Recent
<1>9. \A t : t \in ToSet(retained') => t = s \/ t \in ToSet(retained)
  <2> SUFFICES ASSUME NEW t, t \in ToSet(retained') PROVE t = s \/ t \in ToSet(retained)
    OBVIOUS
  <2>1. PICK i \in 1..Len(retained') : retained'[i] = t
    BY <1>5, LenProperties DEF ToSet
  <2>2. i + k = Len(retained) + 1 \/ i + k \in 1..Len(retained)
    BY <1>3, <1>5, <2>1
  <2> QED
    BY <1>2, <1>6, <2>1, <2>2, PinnedIs
<1>10. Pinned' \subseteq Pinned \cup {None}
  BY <1>1, <1>9 DEF Pinned
<1>11. \A t \in Surfaces \cap Pinned' : surface'[t] # 0
  BY <1>1, <1>10, NoneIsNoSurface
<1>12. surface[s] = newest
  BY <1>1
<1>13. FrameIn(currentSurf)' = newest
  BY <1>1, <1>2, <1>12, NoneIsNoSurface DEF FrameIn
<1>14. VaapiTypeOK'
  BY <1>1, <1>2, <1>5 DEF VaapiTypeOK
<1>15. fill' # None => fill' \in Surfaces \ Pinned'
  BY <1>1, <1>10, NoneIsNoSurface
<1>16. CountersOK' /\ FrameIn(currentSurf)' <= newest'
  BY <1>1, <1>13, MaxFramesOK
<1> QED
  BY <1>1, <1>2, <1>5, <1>7, <1>8, <1>11, <1>13, <1>14, <1>15, <1>16

\* Keeping the frame taken last withdraws the pending one, if there is one.
LEMMA KeepCurrentStep ==
  ASSUME VaapiInv, CountersOK, KeepCurrent
  PROVE  /\ VaapiInv' /\ CountersOK'
         /\ newest' \in {newest, FrameIn(currentSurf)}
         /\ FrameIn(currentSurf)' = FrameIn(currentSurf)
         /\ UNCHANGED <<decoded, rx, fill, currentSurf, retained>>
<1> USE DEF VaapiInv, CountersOK
<1>1. /\ pendingSurf' = None
      /\ newest' = IF pendingSurf = None THEN newest ELSE FrameIn(currentSurf)
      /\ UNCHANGED <<rx, fill, decoded, currentSurf, retained, surface>>
  BY DEF KeepCurrent
<1>2. FrameIn(currentSurf)' = FrameIn(currentSurf)
  BY <1>1 DEF FrameIn
<1>3. FrameIn(currentSurf) \in Nat
  BY CurrentIsPinned, MaxFramesOK DEF FrameIn, VaapiTypeOK
<1>4. CountersOK' /\ FrameIn(currentSurf)' <= newest'
  BY <1>1, <1>2, <1>3, MaxFramesOK
<1>5. Pinned' \subseteq Pinned \cup {None}
  BY <1>1 DEF Pinned
<1>6. VaapiTypeOK'
  BY <1>1 DEF VaapiTypeOK
<1>7. \A s, n : Recent(s, n)' <=> Recent(s, n)
  BY <1>1 DEF Recent
<1> QED
  BY <1>1, <1>2, <1>4, <1>5, <1>6, <1>7, NoneIsNoSurface

(***************************************************************************)
(* The software source on dumb buffers.                                    *)
(***************************************************************************)
SlotTaken == IF displayed = None THEN 0 ELSE content[displayed]

LEMMA SoftwareInitOK ==
  DecodeInit /\ SoftwareInit => PoolInv /\ IngestInv /\ CountersOK
<1> SUFFICES ASSUME DecodeInit, SoftwareInit PROVE PoolInv /\ IngestInv /\ CountersOK
  OBVIOUS
<1>1. SoftwareTypeOK
  <2>1. 0 \in 0..MaxFrames
    BY MaxFramesOK
  <2>2. content \in [Slots -> 0..MaxFrames]
    BY <2>1 DEF SoftwareInit
  <2>3. borrowed \in [frame : 0..MaxFrames, seq : 0..MaxFrames]
    BY <2>1 DEF SoftwareInit
  <2>4. poolReady \in BOOLEAN
    BY DEF SoftwareInit
  <2> QED
    BY <2>1, <2>2, <2>3, <2>4 DEF SoftwareInit, SoftwareTypeOK
<1>2. CountersOK
  BY MaxFramesOK DEF DecodeInit, CountersOK
<1>3. /\ rx = "idle" /\ fill = None /\ newest = 0 /\ decoded = 0
      /\ pending = None /\ displayed = None /\ inFlight = {}
      /\ latest = 0 /\ seq = 0 /\ borrowed = [frame |-> 0, seq |-> 0]
  BY DEF DecodeInit, SoftwareInit
<1>4. Slots \cap (inFlight \cup {pending, displayed}) = {}
  BY <1>3, NoneIsNoSlot
<1>5. borrowed.frame <= newest /\ borrowed.seq <= seq /\ seq <= decoded
  BY <1>3
<1> QED
  BY <1>1, <1>2, <1>3, <1>4, <1>5 DEF PoolInv, IngestInv

\* The decode thread writes into no buffer that is in flight or that was handed
\* out last, and once there is a pending buffer there stays one.
LEMMA PoolRxStep ==
  ASSUME PoolInv, CountersOK, DumbBufferRx
  PROVE  /\ PoolInv' /\ CountersOK' /\ Delivers
         /\ SlotTaken' = SlotTaken
         /\ pending # None => pending' # None
         /\ UNCHANGED <<displayed, inFlight, gpuVars>>
<1> USE DEF PoolInv, CountersOK
<1> DEFINE Goal == /\ PoolInv' /\ CountersOK' /\ Delivers
                   /\ SlotTaken' = SlotTaken
                   /\ pending # None => pending' # None
                   /\ UNCHANGED <<displayed, inFlight, gpuVars>>
<1>1. ASSUME rx' \in {"idle", "pool", "pick"}, rx' = "idle" \/ newest < decoded',
             fill' = None, newest' = newest, decoded' \in decoded..MaxFrames,
             poolReady' \in BOOLEAN,
             UNCHANGED <<pending, displayed, inFlight, content, gpuVars>>
      PROVE  Goal
  <2>1. SoftwareTypeOK'
    BY <1>1 DEF SoftwareTypeOK, gpuVars
  <2>2. CountersOK' /\ Delivers
    BY <1>1, MaxFramesOK DEF Delivers
  <2>3. SlotTaken' = SlotTaken
    BY <1>1 DEF SlotTaken
  <2> QED
    BY <1>1, <2>1, <2>2, <2>3
<1>2. CASE SoftwareFrame
  BY <1>1, <1>2, MaxFramesOK
     DEF SoftwareFrame, NextFrame, swVars, poolVars, SoftwareTypeOK
<1>3. CASE SoftwareDropFrame
  BY <1>1, <1>3, MaxFramesOK
     DEF SoftwareDropFrame, NextFrame, swVars, poolVars, SoftwareTypeOK
<1>4. CASE EnsurePool
  BY <1>1, <1>4, MaxFramesOK DEF EnsurePool
<1>5. CASE PoolFails
  BY <1>1, <1>5, MaxFramesOK DEF PoolFails, GiveUp, swVars, poolVars, SoftwareTypeOK
<1>6. CASE NoConverter
  BY <1>1, <1>6, MaxFramesOK DEF NoConverter, GiveUp, swVars, poolVars, SoftwareTypeOK
<1>7. CASE PickSlot /\ FreeSlots = {}
  BY <1>1, <1>7, MaxFramesOK DEF PickSlot, GiveUp, SoftwareTypeOK
<1>8. CASE PickSlot /\ FreeSlots # {}
  <2>1. /\ rx = "pick" /\ rx' = "fill" /\ fill' \in FreeSlots
        /\ content' = [content EXCEPT ![fill'] = 0]
        /\ UNCHANGED <<decoded, newest, pending, displayed, inFlight, poolReady, gpuVars>>
    BY <1>8 DEF PickSlot
  <2>2. fill' \in Slots \ (inFlight \cup {pending, displayed}) /\ fill' # None
    BY <2>1, NoneIsNoSlot DEF FreeSlots
  <2>3. \A b \in Slots : b # fill' => content'[b] = content[b]
    BY <2>1 DEF SoftwareTypeOK
  <2>4. SoftwareTypeOK'
    BY <2>1, <2>2, MaxFramesOK DEF SoftwareTypeOK, gpuVars
  <2>5. SlotTaken' = SlotTaken
    BY <2>1, <2>2, <2>3 DEF SlotTaken, SoftwareTypeOK
  <2>6. displayed # None => content'[displayed] = content[displayed]
    BY <2>1, <2>2, <2>3 DEF SoftwareTypeOK
  <2>7. pending # None => content'[pending] = content[pending]
    BY <2>1, <2>2, <2>3 DEF SoftwareTypeOK
  <2>8. CountersOK' /\ Delivers
    BY <2>1 DEF Delivers
  <2> QED
    BY <2>1, <2>2, <2>3, <2>4, <2>5, <2>6, <2>7, <2>8
<1>9. CASE PublishSlot
  <2>1. /\ rx = "fill" /\ fill \in Slots /\ rx' = "idle" /\ fill' = None
        /\ newest' = decoded /\ decoded' = decoded /\ pending' = fill
        /\ content' = [content EXCEPT ![fill] = decoded]
        /\ UNCHANGED <<displayed, inFlight, poolReady, gpuVars>>
    BY <1>9 DEF PublishSlot, Published
  <2>2. fill \notin inFlight \cup {displayed} /\ fill # None
    BY <2>1, NoneIsNoSlot
  <2>3. \A b \in Slots : content'[b] = IF b = fill THEN decoded ELSE content[b]
    BY <2>1 DEF SoftwareTypeOK
  <2>4. SoftwareTypeOK'
    BY <2>1, MaxFramesOK DEF SoftwareTypeOK, gpuVars
  <2>5. CountersOK' /\ Delivers /\ decoded # 0 /\ newest <= newest'
    BY <2>1, MaxFramesOK DEF Delivers, Frames
  <2>6. SlotTaken' = SlotTaken
    BY <2>1, <2>2, <2>3 DEF SlotTaken, SoftwareTypeOK
  <2>7. displayed # None => content'[displayed] = content[displayed]
                            /\ content[displayed] \in Nat
    BY <2>1, <2>2, <2>3, MaxFramesOK DEF SoftwareTypeOK
  <2>8. displayed # None => content'[displayed] <= newest'
    BY <2>1, <2>5, <2>7, MaxFramesOK
  <2>9. pending' \notin inFlight' \cup {displayed'} /\ content'[pending'] = newest'
    BY <2>1, <2>2, <2>3
  <2>10. \A b \in Slots \cap (inFlight' \cup {pending', displayed'}) : content'[b] # 0
    BY <2>1, <2>3, <2>5
  <2> QED
    BY <2>1, <2>2, <2>4, <2>5, <2>6, <2>8, <2>9, <2>10
<1> QED
  BY <1>2, <1>3, <1>4, <1>5, <1>6, <1>7, <1>8, <1>9 DEF DumbBufferRx

\* acquire() hands out the pending buffer, which nobody holds and which has the
\* newest frame, or else the one it handed out last.
LEMMA AcquireStep ==
  ASSUME PoolInv, CountersOK, NEW b, Acquire(b)
  PROVE  /\ PoolInv' /\ CountersOK' /\ newest' = newest
         /\ b \in Slots /\ displayed' = b /\ inFlight' = inFlight \cup {b}
         /\ IF pending # None
            THEN b \notin inFlight \cup {displayed} /\ SlotTaken' = newest
            ELSE b = displayed /\ SlotTaken' = SlotTaken
<1> USE DEF PoolInv, CountersOK
<1>1. /\ b = Promoted /\ Promoted # None
      /\ displayed' = b /\ pending' = None /\ inFlight' = inFlight \cup {b}
      /\ UNCHANGED <<rx, fill, decoded, newest, content, poolReady, latest, seq, borrowed>>
  BY DEF Acquire, rxVars, gpuVars
<1>2. IF pending # None THEN b = pending ELSE b = displayed
  BY <1>1 DEF Promoted
<1>3. b \in Slots /\ b # None
  BY <1>1, <1>2 DEF SoftwareTypeOK
<1>4. SoftwareTypeOK'
  BY <1>1, <1>3 DEF SoftwareTypeOK
<1>5. content[b] <= newest /\ content[b] # 0
  BY <1>2, <1>3, MaxFramesOK
<1>6. SlotTaken' = content[b]
  BY <1>1, <1>3 DEF SlotTaken
<1>7. \A c \in Slots \cap (inFlight' \cup {pending', displayed'}) : content'[c] # 0
  BY <1>1, <1>5, NoneIsNoSlot
<1>8. fill' # None => fill' \in Slots \ (inFlight' \cup {pending', displayed'})
  BY <1>1, <1>2, <1>3
<1>9. SlotTaken' = IF pending # None THEN newest ELSE SlotTaken
  BY <1>2, <1>3, <1>6 DEF SlotTaken
<1> QED
  BY <1>1, <1>2, <1>3, <1>4, <1>5, <1>7, <1>8, <1>9

\* release() only ever frees.
LEMMA ReleaseStep ==
  ASSUME PoolInv, CountersOK, NEW b, Release(b)
  PROVE  /\ PoolInv' /\ CountersOK' /\ newest' = newest
         /\ SlotTaken' = SlotTaken
         /\ inFlight' = inFlight \ {b}
         /\ UNCHANGED <<pending, displayed>>
<1>1. /\ inFlight' = inFlight \ {b}
      /\ UNCHANGED <<rx, fill, decoded, newest, pending, displayed, content, poolReady,
                     latest, seq, borrowed>>
  BY DEF Release, rxVars, gpuVars
<1>2. SoftwareTypeOK'
  BY <1>1 DEF PoolInv, SoftwareTypeOK
<1> QED
  BY <1>1, <1>2 DEF PoolInv, CountersOK, SlotTaken

(***************************************************************************)
(* The software source's GPU-ingest lane.                                  *)
(***************************************************************************)
LEMMA IngestRxStep ==
  ASSUME IngestInv, CountersOK, IngestRx
  PROVE  /\ IngestInv' /\ CountersOK' /\ Delivers
         /\ seq <= seq'
         /\ UNCHANGED <<borrowed, poolVars>>
<1> USE DEF IngestInv, CountersOK
<1>0. seq \in Nat /\ borrowed.frame \in Nat /\ borrowed.seq \in Nat
  BY MaxFramesOK DEF SoftwareTypeOK
<1>1. CASE IngestFrame
  <2>1. /\ rx = "idle" /\ decoded < MaxFrames /\ decoded' = decoded + 1
        /\ newest' = decoded' /\ latest' = decoded' /\ seq' = seq + 1
        /\ UNCHANGED <<rx, fill, poolVars, borrowed>>
    BY <1>1 DEF IngestFrame
  <2>2. CountersOK' /\ Delivers /\ newest <= newest'
    BY <2>1, MaxFramesOK DEF Delivers, Frames
  <2>3. SoftwareTypeOK'
    BY <1>0, <2>1, MaxFramesOK DEF SoftwareTypeOK, poolVars
  <2>4. seq <= seq' /\ seq' <= decoded' /\ borrowed'.seq <= seq' /\ borrowed'.frame <= newest'
    BY <1>0, <2>1, <2>2, MaxFramesOK
  <2> QED
    BY <2>1, <2>2, <2>3, <2>4
<1>2. CASE SoftwareDropFrame
  <2>1. /\ decoded' = decoded + 1 /\ decoded < MaxFrames
        /\ rx' = "idle"
        /\ UNCHANGED <<fill, newest, swVars>>
    BY <1>2 DEF SoftwareDropFrame, NextFrame
  <2>2. CountersOK' /\ Delivers
    BY <2>1, MaxFramesOK DEF Delivers
  <2>3. SoftwareTypeOK'
    BY <2>1 DEF SoftwareTypeOK, swVars, poolVars, gpuVars
  <2>4. UNCHANGED <<seq, latest, borrowed, poolVars>>
    BY <2>1 DEF swVars, gpuVars
  <2>5. seq' <= decoded'
    BY <1>0, <2>1, <2>4, MaxFramesOK
  <2> QED
    BY <1>0, <2>1, <2>2, <2>3, <2>4, <2>5
<1> QED
  BY <1>1, <1>2 DEF IngestRx

\* What is borrowed is the newest frame, with its number.
LEMMA BorrowStep ==
  ASSUME IngestInv, CountersOK, AcquireDecodedFrame
  PROVE  /\ IngestInv' /\ CountersOK' /\ newest' = newest
         /\ borrowed'.frame = newest
         /\ borrowed'.seq = seq
         /\ seq' = seq
         /\ UNCHANGED poolVars
<1> USE DEF IngestInv, CountersOK
<1>1. /\ borrowed' = [frame |-> latest, seq |-> seq]
      /\ UNCHANGED <<rx, fill, decoded, newest, poolVars, latest, seq>>
  BY DEF AcquireDecodedFrame, rxVars
<1>2. SoftwareTypeOK'
  BY <1>1 DEF SoftwareTypeOK, poolVars
<1>3. seq \in Nat /\ newest \in Nat
  BY MaxFramesOK DEF SoftwareTypeOK
<1> QED
  BY <1>1, <1>2, <1>3
=============================================================================
