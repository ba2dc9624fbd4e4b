---------------------------- MODULE FrameSource ----------------------------
(***************************************************************************)
(* What a video source promises the display loop that draws from it, no    *)
(* matter which decoder and which buffers are behind it.  The decode       *)
(* thread delivers numbered frames; the display thread takes the newest    *)
(* one, never an older one, and shows what it took; frames in between may  *)
(* be skipped; a frame that turns out to be unusable is withdrawn.  A      *)
(* delivered frame is shown in the end, or a later one is.                 *)
(***************************************************************************)
EXTENDS Naturals

CONSTANT Frames  \* the numbers of the frames, a set of positive integers

VARIABLES
  newest,  \* the number of the newest delivered frame, 0 at first
  taken,   \* the frame the display thread took last
  shown,   \* the frame it showed last
  ended    \* the display thread has left its loop

fvars == <<newest, taken, shown, ended>>

SourceInit ==
  /\ newest = 0
  /\ taken = 0
  /\ shown = 0
  /\ ended = FALSE

Deliver ==
  /\ newest' \in Frames
  /\ newest' > newest
  /\ UNCHANGED <<taken, shown, ended>>

Take ==
  /\ taken' = newest
  /\ UNCHANGED <<newest, shown, ended>>

Withdraw ==
  /\ newest' = taken
  /\ UNCHANGED <<taken, shown, ended>>

Show ==
  /\ shown' > shown
  /\ shown' <= taken
  /\ UNCHANGED <<newest, taken, ended>>

End ==
  /\ ended' = TRUE
  /\ UNCHANGED <<newest, taken, shown>>

SourceNext == Deliver \/ Take \/ Withdraw \/ Show \/ End

\* Every step is one of the five: the display thread takes what is the newest
\* frame at that moment, shows only what it has taken, and never goes back.
SourceSafety == SourceInit /\ [][SourceNext]_fvars

\* A delivered frame, or a newer one, gets on the screen unless it is
\* withdrawn or the loop ends.
SourceLiveness ==
  \A n \in Frames : newest >= n ~> (shown >= n \/ newest < n \/ ended)
=============================================================================
