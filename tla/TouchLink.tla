----------------------------- MODULE TouchLink -----------------------------
(***************************************************************************)
(* What carlinkit-kms and carlinkit-wayland share as they turn the user's  *)
(* contacts into touch messages: the rectangle of the display that the     *)
(* video fills, and what the dongle, whose session is up, makes of the     *)
(* messages.  Points of the display are in half pixels, see Rotation.      *)
(***************************************************************************)
EXTENDS Rotation

CONSTANTS
  Display,      \* W x H
  Source,       \* the size of the decoded picture, even
  Modes,        \* <<rotation, the plane can turn so, the GPU stage, the decoder
                \* source turns what the plane cannot, the plane scales>>
  TouchPoints,  \* the pixels of the display the user touches
  Fingers,
  Nowhere       \* no finger, no point

ASSUME SizesOK ==
  /\ Display \in (Nat \ {0}) \X (Nat \ {0})
  /\ Source \in {2 * n : n \in 1..Display[1]} \X {2 * n : n \in 1..Display[2]}
  /\ Modes \subseteq Angles \X BOOLEAN \X {"none", "ready", "forced"} \X BOOLEAN \X BOOLEAN
  /\ TouchPoints \subseteq Pixels(Display)

ASSUME NowhereOK == Nowhere \notin Fingers

VARIABLES
  view,     \* how the picture gets on the display, see View
  pressed,  \* the dongle has seen a Down and no Up since
  last,     \* the point in the picture sent last: last_x_, last_y_
  at,       \* history: the point of the display it was sent for, or Nowhere
  fingers,  \* the contacts on the touchscreen, as far as they are delivered
  button    \* the left mouse button

linkVars == <<pressed, last, at>>
handVars == <<fingers, button>>

(***************************************************************************)
(* How the picture gets on the display.  Its rotation is done by           *)
(* GlRotateSource if the plane cannot or CARLINKIT_ROTATE_GPU is set, and  *)
(* if EGL and the decoder allow ("gpu"), else by rotate_nv12() if the      *)
(* plane cannot ("cpu"), and else it is the plane's, for which drm-cxx may *)
(* stand in ("plane").                                                     *)
(***************************************************************************)
Smaller(m, n) == IF m < n THEN m ELSE n

Painter(rot, planeTurns, gpu, bakes) ==
  IF rot # 0 /\ (gpu = "forced" \/ (gpu = "ready" /\ ~planeTurns)) THEN "gpu"
  ELSE IF rot # 0 /\ ~planeTurns /\ bakes THEN "cpu"
  ELSE "plane"

\* format() of the source: in its final orientation if the source has rotated.
\* GlRotateSource has the size that was asked of the phone (main_kms.cpp:482-484),
\* whose picture is taken to have that size.
Format(rot, painter) == IF painter = "plane" THEN Source ELSE OutDims(Source, rot)

\* Mutant: the sides are swapped although the source has rotated.
Content_AlwaysSwapped(rot, painter) == OutDims(Format(rot, painter), rot)

\* The size of the picture on the display; swap_wh if the plane rotates.
Content(rot, painter) ==
  IF painter = "plane" THEN OutDims(Format(rot, painter), rot) ELSE Format(rot, painter)

\* n * m / d, rounded as lround() does.
Scaled(n, m, d) == (2 * n * m + d) \div (2 * d)

\* The largest rectangle of the picture's shape c, or its native size if the
\* plane cannot scale.
Fitted(c, scales) ==
  IF ~scales THEN <<Smaller(c[1], Display[1]), Smaller(c[2], Display[2])>>
  ELSE IF Display[1] * c[2] <= Display[2] * c[1]
    THEN <<Display[1], Scaled(c[2], Display[1], c[1])>>
    ELSE <<Scaled(c[1], Display[2], c[2]), Display[2]>>

View(rot, painter, scales) ==
  LET size == Fitted(Content(rot, painter), scales)
  IN [rot |-> rot, painter |-> painter, content |-> Content(rot, painter), size |-> size,
      origin |-> <<(Display[1] - size[1]) \div 2, (Display[2] - size[2]) \div 2>>]

ViewOf(mode) == View(mode[1], Painter(mode[1], mode[2], mode[3], mode[4]), mode[5])

\* However it is turned, something of it is to be seen.
ASSUME ViewsShow ==
  \A mode \in Modes, i \in 1..2 : ViewOf(mode).size[i] > 0

\* A point of the display relative to the video, which is centred.
Local(v, p) == <<p[1] - 2 * v.origin[1], p[2] - 2 * v.origin[2]>>

InVideo(v, p) ==
  LET l == Local(v, p) IN \A i \in 1..2 : 0 <= l[i] /\ l[i] <= 2 * v.size[i]

LinkTypeOK ==
  /\ {pressed, button} \subseteq BOOLEAN
  /\ \A i \in 1..2 : last[i] \in 0..(2 * OutDims(view.size, view.rot)[i])
  /\ fingers \subseteq Fingers

LinkInit ==
  /\ \E mode \in Modes : view = ViewOf(mode)
  /\ pressed = FALSE
  /\ last = OutDims(view.size, view.rot)
  /\ at = Nowhere
  /\ fingers = {}
  /\ button = FALSE

\* The dongle gets a Down, Move or Up for the point q of the picture.
Send(action, q) ==
  /\ last' = q
  /\ pressed' = CASE action = "down" -> TRUE
                  [] action = "up"   -> FALSE
                  [] OTHER           -> pressed

(***************************************************************************)
(* The pixel of the decoded picture that is shown under the point p, and   *)
(* the one that is meant by the point q.                                   *)
(***************************************************************************)
\* On one axis: the pixel, of n that fill the given size, at the point l.
PixelAt(l, size, n) == Smaller((l * n) \div (2 * size), n - 1)

ShownUnder(v, p) ==
  LET l     == Local(v, p)
      pixel == <<PixelAt(l[1], v.size[1], v.content[1]), PixelAt(l[2], v.size[2], v.content[2])>>
  IN CASE v.painter = "cpu"   -> CpuSource(pixel, Source, v.rot)
       [] v.painter = "gpu"   -> GlSource(pixel, Source, v.rot)
       [] v.painter = "plane" -> PlaneSource(pixel, Source, v.rot)

\* On one axis: the pixel, with its edges, contains the point l.
Spans(pixel, l, size, n) ==
  /\ 2 * pixel * size <= l * n
  /\ l * n <= (2 * pixel + 2) * size

Covers(v, pixel, q) ==
  LET size == OutDims(v.size, v.rot) IN
  \A i \in 1..2 : Spans(pixel[i], q[i], size[i], Source[i])
=============================================================================
