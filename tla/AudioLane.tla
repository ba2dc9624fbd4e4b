----------------------------- MODULE AudioLane -----------------------------
(***************************************************************************)
(* What the mixer promises one audio stream: its frames are played in      *)
(* order and at its own rate, resampled to the output's, each from where   *)
(* the last output frame left off, whatever the sizes of the chunks it     *)
(* comes in, and silence when there is nothing.  Only what is older than   *)
(* the newest Cap frames is ever skipped.                                  *)
(***************************************************************************)
EXTENDS Integers

CONSTANTS
  Rate, OutRate,  \* of the stream and of the output, in frames per second
  Block,          \* output frames mixed at a time
  Cap             \* the frames of backlog kept, a second's worth

VARIABLES
  sent,  \* how many frames of the stream have been accepted
  at     \* where in the stream the next output frame reads, in 1/OutRate frame

lvars == <<sent, at>>

End == sent * OutRate

LaneInit == sent = 0 /\ at = 0

Feed ==
  /\ sent' > sent
  /\ LET oldest == (sent' - Cap) * OutRate
     IN  at' = IF at < oldest THEN oldest ELSE at

\* Plays to the end of the block, or to the end of what there is.
Hear ==
  /\ \E k \in 1..Block :
       /\ at + (k - 1) * Rate < End
       /\ k = Block \/ at + k * Rate >= End
       /\ at' = at + k * Rate
  /\ UNCHANGED sent

\* A stream that has ended may begin anew.
Forget ==
  /\ at >= End
  /\ at' = End
  /\ UNCHANGED sent

LaneNext == Feed \/ Hear \/ Forget
LaneStep == LaneNext \/ UNCHANGED lvars
=============================================================================
