-------------------------- MODULE TouchInputProofs --------------------------
(***************************************************************************)
(* The rotations of the picture agree for pictures of every size, not only *)
(* for the one that TLC looks at; and invariants of TouchInput for every   *)
(* display, picture and number of fingers.                                 *)
(***************************************************************************)
EXTENDS TouchInput, TLAPS

Sizes == (Nat \ {0}) \X (Nat \ {0})

\* Half of an even number; the shader's coordinates are all even once they are
\* back at the corner of the texture.
LEMMA HalfOfTwice ==
  ASSUME NEW n \in Int PROVE (2 * n) \div 2 = n
BY SMT

(***************************************************************************)
(* rotate_nv12() and the plane show the same picture:                      *)
(* software_decoder_source.cpp:399-401.                                    *)
(***************************************************************************)
THEOREM CpuMatchesPlane ==
  ASSUME NEW size \in Sizes, NEW rot \in Angles, NEW p \in Pixels(OutDims(size, rot))
  PROVE  CpuSource(p, size, rot) = PlaneSource(p, size, rot)
<1>1. size[1] \in Int /\ size[2] \in Int
  BY DEF Sizes
<1>2. p = <<p[1], p[2]>> /\ p[1] \in Int /\ p[2] \in Int
  BY <1>1 DEF Pixels, OutDims, Sideways
<1>3. CASE rot = 90
  BY <1>3 DEF CpuSource, PlaneSource, Quarter
<1>4. CASE rot = 180
  BY <1>1, <1>2, <1>4, SMT DEF CpuSource, PlaneSource, Quarter, OutDims, Sideways
<1>5. CASE rot = 270
  BY <1>1, <1>2, <1>5, SMT DEF CpuSource, PlaneSource, Quarter, OutDims, Sideways
<1>6. CASE rot = 0
  BY <1>6 DEF CpuSource, PlaneSource
<1> QED
  BY <1>3, <1>4, <1>5, <1>6 DEF Angles

(***************************************************************************)
(* The shader shows it too: gl_rotate_source.cpp:70-85.                    *)
(***************************************************************************)
THEOREM GpuMatchesCpu ==
  ASSUME NEW size \in Sizes, NEW rot \in Angles, NEW p \in Pixels(OutDims(size, rot))
  PROVE  GlSource(p, size, rot) = CpuSource(p, size, rot)
<1>1. PICK w \in Int, h \in Int : size = <<w, h>>
  BY DEF Sizes
<1>2. PICK x \in Int, y \in Int : p = <<x, y>>
  BY <1>1 DEF Pixels, OutDims, Sideways
<1>3. CASE rot = 90
  <2>1. GlSource(p, size, rot) = <<(2 * (w - 1 - y)) \div 2, (2 * x) \div 2>>
    BY <1>1, <1>2, <1>3, SMT DEF GlSource, GlMatrix, OutDims, Sideways
  <2> QED
    BY <2>1, <1>1, <1>2, <1>3, HalfOfTwice DEF CpuSource
<1>4. CASE rot = 180
  <2>1. GlSource(p, size, rot) = <<(2 * (w - 1 - x)) \div 2, (2 * (h - 1 - y)) \div 2>>
    BY <1>1, <1>2, <1>4, SMT DEF GlSource, GlMatrix, OutDims, Sideways
  <2> QED
    BY <2>1, <1>1, <1>2, <1>4, HalfOfTwice DEF CpuSource
<1>5. CASE rot = 270
  <2>1. GlSource(p, size, rot) = <<(2 * y) \div 2, (2 * (h - 1 - x)) \div 2>>
    BY <1>1, <1>2, <1>5, SMT DEF GlSource, GlMatrix, OutDims, Sideways
  <2> QED
    BY <2>1, <1>1, <1>2, <1>5, HalfOfTwice DEF CpuSource
<1>6. CASE rot = 0
  <2>1. GlSource(p, size, rot) = <<(2 * x) \div 2, (2 * y) \div 2>>
    BY <1>1, <1>2, <1>6, SMT DEF GlSource, GlMatrix, OutDims, Sideways
  <2> QED
    BY <2>1, <1>1, <1>2, <1>6, HalfOfTwice DEF CpuSource
<1> QED
  BY <1>3, <1>4, <1>5, <1>6 DEF Angles

(***************************************************************************)
(* to_video() takes the centre of a shown pixel to the centre of the pixel *)
(* of the decoded picture that is shown there: input_touch.h:114-116.      *)
(***************************************************************************)
THEOREM TouchComesBack ==
  ASSUME NEW size \in Sizes, NEW rot \in Angles, NEW p \in Pixels(OutDims(size, rot))
  PROVE  ToVideo(Centre(p), OutDims(size, rot), rot) = Centre(CpuSource(p, size, rot))
<1>1. PICK w \in Int, h \in Int : size = <<w, h>>
  BY DEF Sizes
<1>2. PICK x \in Int, y \in Int : p = <<x, y>>
  BY <1>1 DEF Pixels, OutDims, Sideways
<1>3. CASE rot = 90
  BY <1>1, <1>2, <1>3, SMT DEF ToVideo, Centre, OutDims, Sideways, CpuSource
<1>4. CASE rot = 180
  BY <1>1, <1>2, <1>4, SMT DEF ToVideo, Centre, OutDims, Sideways, CpuSource
<1>5. CASE rot = 270
  BY <1>1, <1>2, <1>5, SMT DEF ToVideo, Centre, OutDims, Sideways, CpuSource
<1>6. CASE rot = 0
  BY <1>1, <1>2, <1>6, SMT DEF ToVideo, Centre, OutDims, Sideways, CpuSource
<1> QED
  BY <1>3, <1>4, <1>5, <1>6 DEF Angles

(***************************************************************************)
(* rotate_delta() is undone by to_video(), so a drag follows the picture:  *)
(* input_touch.h:138-141.                                                  *)
(***************************************************************************)
THEOREM DragComesBack ==
  ASSUME NEW rect \in Int \X Int, NEW l \in Int \X Int, NEW d \in Int \X Int, NEW rot \in Angles
  PROVE  LET turned == RotateDelta(d, rot)
             here   == ToVideo(l, rect, rot)
         IN ToVideo(<<l[1] + turned[1], l[2] + turned[2]>>, rect, rot)
              = <<here[1] + d[1], here[2] + d[2]>>
<1>1. l = <<l[1], l[2]>> /\ \A i \in 1..2 : l[i] \in Int /\ d[i] \in Int /\ rect[i] \in Int
  OBVIOUS
<1>2. CASE rot = 90
  BY <1>1, <1>2, SMT DEF ToVideo, RotateDelta
<1>3. CASE rot = 180
  BY <1>1, <1>3, SMT DEF ToVideo, RotateDelta
<1>4. CASE rot = 270
  BY <1>1, <1>4, SMT DEF ToVideo, RotateDelta
<1>5. CASE rot = 0
  BY <1>1, <1>5, SMT DEF ToVideo, RotateDelta
<1> QED
  BY <1>2, <1>3, <1>4, <1>5 DEF Angles

(***************************************************************************)
(* The picture's place on the display.  It is chosen once.                 *)
(***************************************************************************)
PictureOK(v) ==
  /\ v.rot \in Angles
  /\ v.painter \in {"plane", "gpu", "cpu"}
  /\ v.content = OutDims(Source, v.rot)
  /\ v.size \in (Nat \ {0}) \X (Nat \ {0})
  /\ v.origin \in Int \X Int

ViewOK == PictureOK(view) /\ (ui = "wayland" => view.rot = 0)

LEMMA ScaledNat ==
  ASSUME NEW n \in Nat, NEW m \in Nat, NEW d \in Nat \ {0}
  PROVE  Scaled(n, m, d) \in Nat
<1>1. 2 * n * m + d \in Nat /\ 2 * d \in Nat \ {0}
  BY SMT
<1>2. \A a \in Nat, b \in Nat \ {0} : a \div b \in Nat
  BY SMT
<1> QED
  BY <1>1, <1>2 DEF Scaled

LEMMA ViewInit == Init => ViewOK
<1> SUFFICES ASSUME Init PROVE ViewOK
  OBVIOUS
<1>1. Display[1] \in Nat \ {0} /\ Display[2] \in Nat \ {0}
  BY SizesOK
<1>2. Source[1] \in Nat \ {0} /\ Source[2] \in Nat \ {0}
  BY SizesOK, <1>1, SMT
<1>3. PICK mode \in Modes : view = ViewOf(mode)
  BY DEF Init, LinkInit
<1> DEFINE painter == Painter(mode[1], mode[2], mode[3], mode[4])
<1>4. mode[1] \in Angles
  BY SizesOK
<1> DEFINE c == Content(mode[1], painter)
<1>5. c[1] \in Nat \ {0} /\ c[2] \in Nat \ {0}
  BY <1>2 DEF Content, Format, OutDims
<1>6. Fitted(c, mode[5]) \in Nat \X Nat
  BY <1>1, <1>5, ScaledNat DEF Fitted, Smaller
<1>7. /\ view.rot = mode[1] /\ view.painter = painter
      /\ view.content = c
      /\ view.size = Fitted(c, mode[5])
      /\ view.origin = <<(Display[1] - view.size[1]) \div 2, (Display[2] - view.size[2]) \div 2>>
  BY <1>3 DEF ViewOf, View
<1>8. view.size \in (Nat \ {0}) \X (Nat \ {0})
  <2>1. view.size[1] > 0 /\ view.size[2] > 0
    BY <1>3, ViewsShow
  <2> QED
    BY <2>1, <1>6, <1>7
<1>9. view.origin \in Int \X Int
  BY <1>1, <1>6, <1>7, SMT
<1>10. c = OutDims(Source, mode[1]) /\ painter \in {"plane", "gpu", "cpu"}
  BY SizesOK DEF Content, Format, Painter
<1>11. ui = "wayland" => view.rot = 0
  BY DEF Init, View
<1> QED
  BY <1>4, <1>7, <1>8, <1>9, <1>10, <1>11 DEF ViewOK, PictureOK

LEMMA ViewStays == [Next]_vars => UNCHANGED <<view, ui>>
<1> SUFFICES ASSUME [Next]_vars PROVE UNCHANGED <<view, ui>>
  OBVIOUS
<1>1. CASE InputEvent
  BY <1>1 DEF InputEvent, threadVars
<1>2. CASE LoopEvent
  BY <1>2 DEF LoopEvent, threadVars
<1>3. CASE QuitKey \/ InputExits \/ QuitSignal
  BY <1>3 DEF QuitKey, InputExits, QuitSignal
<1>4. CASE PrerollQuits \/ FirstCommit \/ FirstCommitFails \/ RenderQuits \/ CommitFails
             \/ JoinInput \/ LoopEnds
  BY <1>4 DEF PrerollQuits, FirstCommit, FirstCommitFails, RenderQuits, CommitFails, JoinInput,
              LoopEnds, Main
<1>5. CASE TakeDirty \/ ReadAxis \/ MoveCursor
  BY <1>5 DEF TakeDirty, ReadAxis, MoveCursor, CursorUnchanged, threadVars
<1>6. CASE UNCHANGED vars
  BY <1>6 DEF vars, threadVars
<1> QED
  BY <1>1, <1>2, <1>3, <1>4, <1>5, <1>6 DEF Next

LEMMA ViewHolds == Spec => []ViewOK
<1>1. ViewOK /\ [Next]_vars => ViewOK'
  BY ViewStays DEF ViewOK
<1> QED
  BY <1>1, ViewInit, PTL DEF Spec

(***************************************************************************)
(* The cursor.  A movement after take_cursor_dirty() has set the flag      *)
(* again, so what the render thread may have missed is still announced     *)
(* when it has moved the hardware cursor.                                  *)
(***************************************************************************)
CursorInv ==
  /\ stale => dirty \/ moving
  /\ late => dirty /\ moving
  /\ reads > 0 => moving
  /\ reads \in 0..2

\* What an event does to the flag: handle_pointer() sets it with the cursor.
LEMMA HandleMarks ==
  Handle => (dirty => dirty') /\ (cursor' # cursor => dirty')
<1> SUFFICES ASSUME Handle PROVE (dirty => dirty') /\ (cursor' # cursor => dirty')
  OBVIOUS
<1>1. CASE \E f \in Fingers, p \in TouchPoints :
             TouchDown(f, Centre(p)) \/ TouchMotion(f, Centre(p))
  BY <1>1 DEF TouchDown, TouchMotion, mapperVars
<1>2. CASE \E f \in Fingers : TouchUp(f)
  BY <1>2 DEF TouchUp
<1>3. CASE \E d \in Directions : PointerMotion(d)
  BY <1>3 DEF PointerMotion
<1>4. CASE PointerButton
  BY <1>4 DEF PointerButton
<1> QED
  BY <1>1, <1>2, <1>3, <1>4 DEF Handle

LEMMA CursorStep == CursorInv /\ [Next]_vars => CursorInv'
<1> SUFFICES ASSUME CursorInv, [Next]_vars PROVE CursorInv'
  OBVIOUS
<1> USE DEF CursorInv
<1>1. CASE InputEvent
  BY <1>1, HandleMarks DEF InputEvent, cursorVars
<1>2. CASE LoopEvent
  BY <1>2 DEF LoopEvent, cursorVars, mapperVars
<1>3. CASE QuitKey \/ InputExits \/ QuitSignal
  BY <1>3 DEF QuitKey, InputExits, QuitSignal, cursorVars, mapperVars
<1>4. CASE PrerollQuits \/ FirstCommit \/ FirstCommitFails \/ RenderQuits \/ CommitFails
             \/ JoinInput \/ LoopEnds
  BY <1>4 DEF PrerollQuits, FirstCommit, FirstCommitFails, RenderQuits, CommitFails, JoinInput,
              LoopEnds, Main, cursorVars, mapperVars
<1>5. CASE TakeDirty
  BY <1>5 DEF TakeDirty
<1>6. CASE ReadAxis
  BY <1>6 DEF ReadAxis
<1>7. CASE MoveCursor
  BY <1>7 DEF MoveCursor
<1>8. CASE UNCHANGED vars
  BY <1>8 DEF vars, cursorVars, mapperVars
<1> QED
  BY <1>1, <1>2, <1>3, <1>4, <1>5, <1>6, <1>7, <1>8 DEF Next

\* The hardware cursor is where the TouchMapper's cursor is, or will be moved
\* again: main_kms.cpp:826-827 against input_touch.h:204-214.
THEOREM CursorCatchesUp == Spec => []CursorFollows
<1>1. Init => CursorInv
  BY DEF Init, MapperInit, CursorInv
<1>2. CursorInv => CursorFollows
  BY DEF CursorInv, CursorFollows
<1> QED
  BY <1>1, <1>2, CursorStep, PTL DEF Spec

(***************************************************************************)
(* What the dongle takes to be pressed.  In carlinkit-kms a press has      *)
(* down_ set, and down_ a finger or the button; in carlinkit-wayland it    *)
(* has ptr_down_ or touch_id_, which stand for the button and for a finger *)
(* or one that was cancelled.                                              *)
(***************************************************************************)
PressInv ==
  /\ ui = "kms" =>
       /\ pressed => down
       /\ down => fingers # {} \/ button
  /\ ui = "wayland" =>
       /\ input = "none" /\ main # "preroll"
       /\ pressed => sized /\ (ptrDown \/ touchId # Nowhere)
       /\ ptrDown = button
       /\ touchId # Nowhere => touchId \in fingers \/ cancelled
  /\ ui \in {"kms", "wayland"}
  /\ {pressed, down, button, ptrDown, cancelled} \subseteq BOOLEAN

LEMMA HandleKeepsPress ==
  ASSUME PressInv, ui = "kms", Handle, UNCHANGED <<wlVars, ui, main, input>>
  PROVE  PressInv'
<1> USE DEF PressInv
<1>1. CASE \E f \in Fingers, p \in TouchPoints : TouchDown(f, Centre(p))
  BY <1>1 DEF TouchDown, Emit, Send, linkVars, wlVars
<1>2. CASE \E f \in Fingers, p \in TouchPoints : TouchMotion(f, Centre(p))
  BY <1>2 DEF TouchMotion, Emit, Send, linkVars, handVars, mapperVars, wlVars
<1>3. CASE \E f \in Fingers : TouchUp(f)
  BY <1>3 DEF TouchUp, Send, wlVars
<1>4. CASE \E d \in Directions : PointerMotion(d)
  BY <1>4 DEF PointerMotion, Emit, Send, linkVars, handVars, wlVars
<1>5. CASE PointerButton
  BY <1>5 DEF PointerButton, Emit, Send, linkVars, wlVars
<1> QED
  BY <1>1, <1>2, <1>3, <1>4, <1>5 DEF Handle

LEMMA LoopKeepsPress ==
  ASSUME PressInv, ui = "wayland", WaylandHandle, UNCHANGED <<mapperVars, ui, main, input>>
  PROVE  PressInv'
<1> USE DEF PressInv
<1>1. CASE \E f \in Fingers, p \in TouchPoints : OnTouchDown(f, Centre(p))
  <2>1. PICK f \in Fingers, p \in TouchPoints : OnTouchDown(f, Centre(p))
    BY <1>1
  <2>2. /\ fingers' = fingers \cup {f}
        /\ UNCHANGED <<button, sized, ptrDown, cancelled, down, ui, main, input>>
    BY <2>1 DEF OnTouchDown, mapperVars
  <2>3. CASE touchId = Nowhere
    <3>1. touchId' = f /\ touchId' # Nowhere /\ touchId' \in fingers'
      BY <2>1, <2>2, <2>3, NowhereOK DEF OnTouchDown
    <3>2. pressed' \in BOOLEAN /\ (pressed' => sized)
      BY <2>1, <2>3 DEF OnTouchDown, SendTouchNorm, Send, linkVars
    <3> QED
      BY <2>2, <3>1, <3>2
  <2>4. CASE touchId # Nowhere
    BY <2>1, <2>2, <2>4 DEF OnTouchDown, linkVars
  <2> QED
    BY <2>3, <2>4
<1>2. CASE \E f \in Fingers, p \in TouchPoints : OnTouchMotion(f, Centre(p))
  BY <1>2 DEF OnTouchMotion, SendTouchNorm, Send, linkVars, handVars, wlVars, mapperVars
<1>3. CASE \E f \in Fingers : OnTouchUp(f)
  <2>1. PICK f \in Fingers : OnTouchUp(f)
    BY <1>3
  <2>2. /\ fingers' = fingers \ {f}
        /\ UNCHANGED <<button, sized, ptrDown, down, ui, main, input>>
    BY <2>1 DEF OnTouchUp, mapperVars
  <2>3. CASE f = touchId
    BY <2>1, <2>2, <2>3 DEF OnTouchUp, Send
  <2>4. CASE f # touchId
    BY <2>1, <2>2, <2>4 DEF OnTouchUp
  <2> QED
    BY <2>3, <2>4
<1>4. CASE \E p \in TouchPoints : OnPointerMotion(Centre(p))
  BY <1>4 DEF OnPointerMotion, SendTouchNorm, Send, linkVars, handVars, mapperVars
<1>5. CASE OnPointerButton
  BY <1>5 DEF OnPointerButton, SendTouchNorm, Send, linkVars, mapperVars
<1>6. CASE TouchCancelled
  BY <1>6 DEF TouchCancelled, linkVars, mapperVars
<1>7. CASE Sized
  BY <1>7 DEF Sized, linkVars, handVars, mapperVars
<1> QED
  BY <1>1, <1>2, <1>3, <1>4, <1>5, <1>6, <1>7 DEF WaylandHandle

LEMMA PressStep == PressInv /\ [Next]_vars => PressInv'
<1> SUFFICES ASSUME PressInv, [Next]_vars PROVE PressInv'
  OBVIOUS
<1>1. CASE InputEvent
  <2>1. ui = "kms"
    BY <1>1 DEF InputEvent, PressInv
  <2> QED
    BY <1>1, <2>1, HandleKeepsPress DEF InputEvent, threadVars
<1>2. CASE LoopEvent
  BY <1>2, LoopKeepsPress DEF LoopEvent, threadVars
<1>3. CASE QuitKey \/ InputExits \/ QuitSignal
  BY <1>3 DEF QuitKey, InputExits, QuitSignal, PressInv, linkVars, handVars, mapperVars, wlVars
<1>4. CASE PrerollQuits \/ FirstCommit \/ FirstCommitFails \/ RenderQuits \/ CommitFails
             \/ JoinInput \/ LoopEnds
  BY <1>4 DEF PrerollQuits, FirstCommit, FirstCommitFails, RenderQuits, CommitFails, JoinInput,
              LoopEnds, Main, PressInv, linkVars, handVars, mapperVars, wlVars
<1>5. CASE TakeDirty \/ ReadAxis \/ MoveCursor
  BY <1>5 DEF TakeDirty, ReadAxis, MoveCursor, CursorUnchanged, PressInv, linkVars, handVars,
              wlVars, threadVars
<1>6. CASE UNCHANGED vars
  BY <1>6 DEF vars, PressInv, linkVars, handVars, mapperVars, wlVars, threadVars
<1> QED
  BY <1>1, <1>2, <1>3, <1>4, <1>5, <1>6 DEF Next

\* Once nothing is held nothing is held for the dongle, with any number of
\* fingers: input_touch.h:163-233, main_wayland.cpp:625-671.
THEOREM NothingStuck == Spec => []NoStuckTouch
<1>1. Init => PressInv
  BY DEF Init, LinkInit, MapperInit, WaylandInit, PressInv
<1>2. PressInv => NoStuckTouch
  BY DEF PressInv, NoStuckTouch
<1> QED
  BY <1>1, <1>2, PressStep, PTL DEF Spec

(***************************************************************************)
(* What is shown at a point, on one axis.                                  *)
(***************************************************************************)
LEMMA FloorBounds ==
  ASSUME NEW a \in Nat, NEW b \in Nat \ {0}
  PROVE  /\ a \div b \in Nat
         /\ b * (a \div b) <= a
         /\ a < b * (a \div b) + b
BY SMT

LEMMA ProductMonotone ==
  ASSUME NEW m \in Int, NEW n \in Int, NEW s \in Nat, m <= n
  PROVE  m * s <= n * s
BY SMT

LEMMA PixelSpans ==
  ASSUME NEW l \in Nat, NEW s \in Nat \ {0}, NEW n \in Nat \ {0}, l <= 2 * s
  PROVE  PixelAt(l, s, n) \in 0..(n - 1) /\ Spans(PixelAt(l, s, n), l, s, n)
<1> DEFINE q == (l * n) \div (2 * s)
           pixel == PixelAt(l, s, n)
<1>1. l * n \in Nat /\ 2 * s \in Nat \ {0}
  BY SMT
<1>2. q \in Nat /\ (2 * s) * q <= l * n /\ l * n < (2 * s) * q + 2 * s
  BY <1>1, FloorBounds
<1>3. pixel = IF q < n - 1 THEN q ELSE n - 1
  BY DEF PixelAt, Smaller
<1> HIDE DEF q, pixel
<1>4. (2 * s) * q = 2 * (q * s)
  BY <1>2, SMT
<1>5. pixel \in 0..(n - 1) /\ 2 * (pixel * s) <= l * n /\ l * n <= 2 * (pixel * s) + 2 * s
  <2>1. CASE q < n - 1
    BY <1>2, <1>3, <1>4, <2>1
  <2>2. CASE ~(q < n - 1)
    <3>1. pixel = n - 1
      BY <1>3, <2>2
    <3>2. (n - 1) * s <= q * s
      BY <1>2, <2>2, ProductMonotone
    <3>3. l * n <= (2 * s) * n
      BY ProductMonotone
    <3>4. (2 * s) * n = 2 * ((n - 1) * s) + 2 * s
      BY SMT
    <3>5. (n - 1) * s \in Int /\ q * s \in Int
      BY <1>2
    <3> QED
      BY <1>1, <1>2, <1>4, <3>1, <3>2, <3>3, <3>4, <3>5
  <2> QED
    BY <2>1, <2>2
<1>6. Spans(pixel, l, s, n)
  BY <1>5, SMT DEF Spans
<1> QED
  BY <1>5, <1>6 DEF pixel

\* Seen from the other end of the axis.
LEMMA SpansMirrored ==
  ASSUME NEW pixel \in Int, NEW l \in Int, NEW s \in Int, NEW n \in Int,
         Spans(pixel, l, s, n)
  PROVE  Spans(n - 1 - pixel, 2 * s - l, s, n)
<1>1. 2 * (n - 1 - pixel) * s = 2 * (n * s) - 2 * s - 2 * (pixel * s)
  BY SMT
<1>2. (2 * (n - 1 - pixel) + 2) * s = 2 * (n * s) - 2 * (pixel * s)
  BY SMT
<1>3. (2 * s - l) * n = 2 * (n * s) - l * n
  BY SMT
<1>4. 2 * (pixel * s) <= l * n /\ l * n <= 2 * (pixel * s) + 2 * s
  BY SMT DEF Spans
<1>5. n * s \in Int /\ pixel * s \in Int /\ l * n \in Int
  BY SMT
<1> QED
  BY <1>1, <1>2, <1>3, <1>4, <1>5 DEF Spans

(***************************************************************************)
(* Whoever turns the picture, a point of the display is taken to a point   *)
(* of the pixel that is shown there.                                       *)
(***************************************************************************)
LEMMA TouchMeetsPixel ==
  ASSUME NEW v, PictureOK(v), NEW p \in Int \X Int, InVideo(v, p)
  PROVE  Covers(v, ShownUnder(v, p), ToVideo(Local(v, p), v.size, v.rot))
<1> DEFINE l     == Local(v, p)
           pixel == <<PixelAt(l[1], v.size[1], v.content[1]), PixelAt(l[2], v.size[2], v.content[2])>>
<1>1. /\ l = <<l[1], l[2]>>
      /\ l[1] \in Nat /\ l[1] <= 2 * v.size[1]
      /\ l[2] \in Nat /\ l[2] <= 2 * v.size[2]
  BY DEF Local, InVideo, PictureOK
<1>2. PICK W \in Nat \ {0}, H \in Nat \ {0} : Source = <<W, H>>
  BY SizesOK, SMT
<1>3. PICK sx \in Nat \ {0}, sy \in Nat \ {0} : v.size = <<sx, sy>>
  BY DEF PictureOK
<1>4. v.content[1] \in Nat \ {0} /\ v.content[2] \in Nat \ {0} /\ v.rot \in Angles
  BY <1>2 DEF PictureOK, OutDims
<1>5. /\ pixel[1] \in 0..(v.content[1] - 1) /\ Spans(pixel[1], l[1], sx, v.content[1])
      /\ pixel[2] \in 0..(v.content[2] - 1) /\ Spans(pixel[2], l[2], sy, v.content[2])
  BY <1>1, <1>3, <1>4, PixelSpans
<1> HIDE DEF l
<1>6. ShownUnder(v, p) = CpuSource(pixel, Source, v.rot)
  <2>1. Source \in Sizes
    BY <1>2 DEF Sizes
  <2>2. pixel \in Pixels(OutDims(Source, v.rot))
    BY <1>5 DEF Pixels, PictureOK
  <2> QED
    BY <2>1, <2>2, <1>4, CpuMatchesPlane, GpuMatchesCpu DEF ShownUnder, PictureOK, l
<1> DEFINE a == pixel[1]
           b == pixel[2]
<1>7. pixel = <<a, b>> /\ a \in Int /\ b \in Int
  BY <1>5, <1>4
<1>8. v.content = OutDims(Source, v.rot)
  BY DEF PictureOK
<1> HIDE DEF pixel
<1> SUFFICES Covers(v, CpuSource(pixel, Source, v.rot), ToVideo(l, v.size, v.rot))
  BY <1>6 DEF l
<1>9. CASE v.rot = 90
  <2>1. Spans(a, l[1], sx, H) /\ Spans(b, l[2], sy, W)
    BY <1>2, <1>5, <1>8, <1>9 DEF OutDims, Sideways
  <2>2. Spans(W - 1 - b, 2 * sy - l[2], sy, W)
    BY <2>1, <1>1, <1>7, SpansMirrored
  <2> QED
    BY <2>1, <2>2, <1>1, <1>2, <1>3, <1>7, <1>9 DEF Covers, CpuSource, ToVideo, OutDims, Sideways
<1>10. CASE v.rot = 180
  <2>1. Spans(a, l[1], sx, W) /\ Spans(b, l[2], sy, H)
    BY <1>2, <1>5, <1>8, <1>10 DEF OutDims, Sideways
  <2>2. Spans(W - 1 - a, 2 * sx - l[1], sx, W) /\ Spans(H - 1 - b, 2 * sy - l[2], sy, H)
    BY <2>1, <1>1, <1>7, SpansMirrored
  <2> QED
    BY <2>2, <1>1, <1>2, <1>3, <1>7, <1>10 DEF Covers, CpuSource, ToVideo, OutDims, Sideways
<1>11. CASE v.rot = 270
  <2>1. Spans(a, l[1], sx, H) /\ Spans(b, l[2], sy, W)
    BY <1>2, <1>5, <1>8, <1>11 DEF OutDims, Sideways
  <2>2. Spans(H - 1 - a, 2 * sx - l[1], sx, H)
    BY <2>1, <1>1, <1>7, SpansMirrored
  <2> QED
    BY <2>1, <2>2, <1>1, <1>2, <1>3, <1>7, <1>11 DEF Covers, CpuSource, ToVideo, OutDims, Sideways
<1>12. CASE v.rot = 0
  <2>1. Spans(a, l[1], sx, W) /\ Spans(b, l[2], sy, H)
    BY <1>2, <1>5, <1>8, <1>12 DEF OutDims, Sideways
  <2> QED
    BY <2>1, <1>1, <1>2, <1>3, <1>7, <1>12 DEF Covers, CpuSource, ToVideo, OutDims, Sideways
<1> QED
  BY <1>4, <1>9, <1>10, <1>11, <1>12 DEF Angles

(***************************************************************************)
(* A mouse along the picture drags along the picture.  Unless it stops at  *)
(* the edge of the display, the cursor moves by what rotate_delta() says,  *)
(* and to_video() undoes that.                                             *)
(***************************************************************************)
LEMMA PushedBy ==
  ASSUME NEW c \in (0..(2 * Display[1])) \X (0..(2 * Display[2])), NEW d \in Directions,
         view.rot \in Angles, Pushed(c, d, 1) # c
  PROVE  LET turned == RotateDelta(d, view.rot)
         IN Pushed(c, d, 1) = <<c[1] + turned[1], c[2] + turned[2]>>
<1> DEFINE turned == RotateDelta(d, view.rot)
<1>1. Display[1] \in Nat /\ Display[2] \in Nat
  BY SizesOK
<1>2. PICK x \in Nat, y \in Nat : c = <<x, y>> /\ x <= 2 * Display[1] /\ y <= 2 * Display[2]
  BY <1>1
<1>3. turned \in Directions
  BY DEF RotateDelta, Directions, Angles
<1> HIDE DEF turned
<1>4. Pushed(c, d, 1) = <<Clamp(x + turned[1], 2 * Display[1]), Clamp(y + turned[2], 2 * Display[2])>>
  BY <1>2, <1>3 DEF Pushed, turned, Directions
<1>5. Pushed(c, d, 1) = <<x + turned[1], y + turned[2]>>
  BY <1>1, <1>2, <1>3, <1>4 DEF Clamp, Smaller, Directions
<1> QED
  BY <1>2, <1>5 DEF turned

LEMMA DragMeetsPicture == ViewOK /\ MapperTypeOK => DragsWithPicture
<1> SUFFICES ASSUME ViewOK, MapperTypeOK,
                    NEW d \in Directions,
                    Pushed(cursor, d, 1) # cursor
             PROVE  LET next == Pushed(cursor, d, 1)
                        here == ToVideo(Local(view, cursor), view.size, view.rot)
                    IN ToVideo(Local(view, next), view.size, view.rot)
                         = <<here[1] + d[1], here[2] + d[2]>>
  BY DEF DragsWithPicture
<1> DEFINE next   == Pushed(cursor, d, 1)
           turned == RotateDelta(d, view.rot)
           l      == Local(view, cursor)
<1>1. view.rot \in Angles /\ view.size \in Int \X Int /\ view.origin \in Int \X Int
  BY DEF ViewOK, PictureOK
<1>2. cursor \in Int \X Int /\ d \in Int \X Int
  BY SizesOK DEF MapperTypeOK, Directions
<1>3. turned[1] \in Int /\ turned[2] \in Int
  BY <1>1, <1>2 DEF RotateDelta, Angles
<1>4. next = <<cursor[1] + turned[1], cursor[2] + turned[2]>>
  BY <1>1, PushedBy DEF MapperTypeOK
<1>5. l \in Int \X Int
  BY <1>1, <1>2 DEF Local
<1> HIDE DEF next, turned
<1>6. Local(view, next) = <<l[1] + turned[1], l[2] + turned[2]>>
  BY <1>1, <1>2, <1>3, <1>4 DEF Local
<1> HIDE DEF l
<1>7. ToVideo(<<l[1] + turned[1], l[2] + turned[2]>>, view.size, view.rot)
        = <<ToVideo(l, view.size, view.rot)[1] + d[1], ToVideo(l, view.size, view.rot)[2] + d[2]>>
  BY <1>1, <1>2, <1>5, DragComesBack DEF turned
<1> QED
  BY <1>6, <1>7 DEF next, l

(***************************************************************************)
(* The type of the state, together with the place of the point sent last.  *)
(***************************************************************************)
\* What every message to the dongle keeps.
LinkSafe ==
  /\ pressed \in BOOLEAN
  /\ \A i \in 1..2 : last[i] \in 0..(2 * OutDims(view.size, view.rot)[i])
  /\ TouchesWhatIsShown

IInv ==
  /\ TypeOK
  /\ LinkSafe
  /\ ViewOK
  /\ pointer \in Int \X Int

LEMMA CentreIsPoint == ASSUME NEW p \in TouchPoints PROVE Centre(p) \in Int \X Int
BY SizesOK DEF Pixels, Centre

LEMMA PictureSides ==
  ASSUME ViewOK
  PROVE  /\ view.rot \in Angles
         /\ \E w \in Nat \ {0}, h \in Nat \ {0} : view.size = <<w, h>>
         /\ view.origin \in Int \X Int
BY DEF ViewOK, PictureOK

LEMMA ToVideoInside ==
  ASSUME ViewOK, NEW p \in Int \X Int, InVideo(view, p)
  PROVE  \A i \in 1..2 : ToVideo(Local(view, p), view.size, view.rot)[i]
                           \in 0..(2 * OutDims(view.size, view.rot)[i])
<1>1. PICK w \in Nat \ {0}, h \in Nat \ {0} : view.size = <<w, h>>
  BY PictureSides
<1>2. PICK x \in Int, y \in Int :
        Local(view, p) = <<x, y>> /\ x \in 0..(2 * w) /\ y \in 0..(2 * h)
  BY <1>1, PictureSides DEF Local, InVideo
<1>3. view.rot \in Angles
  BY PictureSides
<1> QED
  BY <1>1, <1>2, <1>3 DEF ToVideo, OutDims, Sideways, Angles

LEMMA EmitKeepsLink ==
  ASSUME ViewOK, LinkSafe, NEW p \in Int \X Int, NEW action, Emit(action, p), view' = view
  PROVE  LinkSafe'
<1>1. CASE InVideo(view, p)
  <2>1. last' = ToVideo(Local(view, p), view.size, view.rot) /\ at' = p
    BY <1>1 DEF Emit, Send
  <2>2. pressed' \in BOOLEAN
    BY <1>1 DEF Emit, Send, LinkSafe
  <2>3. Covers(view, ShownUnder(view, p), last')
    BY <1>1, <2>1, TouchMeetsPixel DEF ViewOK
  <2> QED
    BY <1>1, <2>1, <2>2, <2>3, ToVideoInside DEF LinkSafe, TouchesWhatIsShown
<1>2. CASE ~InVideo(view, p)
  BY <1>2 DEF Emit, Send, LinkSafe, TouchesWhatIsShown
<1> QED
  BY <1>1, <1>2

LEMMA SurfaceInside ==
  ASSUME ViewOK, view.rot = 0, NEW p \in Int \X Int
  PROVE  /\ \A i \in 1..2 : OnSurface(p)[i] \in 0..(2 * OutDims(view.size, view.rot)[i])
         /\ InVideo(view, p) => OnSurface(p) = ToVideo(Local(view, p), view.size, view.rot)
<1>1. PICK w \in Nat \ {0}, h \in Nat \ {0} : view.size = <<w, h>>
  BY PictureSides
<1>2. PICK x \in Int, y \in Int : Local(view, p) = <<x, y>>
  BY PictureSides DEF Local
<1>3. OnSurface(p) = <<Within(x, 2 * w), Within(y, 2 * h)>>
  BY <1>1, <1>2 DEF OnSurface
<1>4. \A i \in 1..2 : OnSurface(p)[i] \in 0..(2 * OutDims(view.size, view.rot)[i])
  BY <1>1, <1>3 DEF Within, Smaller, OutDims, Sideways
<1>5. ASSUME InVideo(view, p)
      PROVE  OnSurface(p) = ToVideo(Local(view, p), view.size, view.rot)
  <2>1. 0 <= x /\ x <= 2 * w /\ 0 <= y /\ y <= 2 * h
    BY <1>1, <1>2, <1>5 DEF InVideo
  <2> QED
    BY <1>2, <1>3, <2>1 DEF Within, Smaller, ToVideo
<1> QED
  BY <1>4, <1>5

LEMMA SendKeepsLink ==
  ASSUME ViewOK, view.rot = 0, LinkSafe, NEW p \in Int \X Int, NEW action,
         SendTouchNorm(action, p), view' = view
  PROVE  LinkSafe'
<1>1. CASE sized
  <2>1. last' = OnSurface(p) /\ at' = IF InVideo(view, p) THEN p ELSE Nowhere
    BY <1>1 DEF SendTouchNorm, Send
  <2>2. pressed' \in BOOLEAN
    BY <1>1 DEF SendTouchNorm, Send, LinkSafe
  <2>3. at' # Nowhere => Covers(view, ShownUnder(view, at'), last')
    BY <2>1, SurfaceInside, TouchMeetsPixel DEF ViewOK
  <2> QED
    BY <2>1, <2>2, <2>3, SurfaceInside DEF LinkSafe, TouchesWhatIsShown
<1>2. CASE ~sized
  BY <1>2 DEF SendTouchNorm, linkVars, LinkSafe, TouchesWhatIsShown
<1> QED
  BY <1>1, <1>2

LEMMA PushedInside ==
  ASSUME ViewOK, MapperTypeOK, NEW d \in Directions, NEW by \in Nat
  PROVE  Pushed(cursor, d, by) \in (0..(2 * Display[1])) \X (0..(2 * Display[2]))
<1>1. Display[1] \in Nat /\ Display[2] \in Nat
  BY SizesOK
<1>2. PICK x \in Nat, y \in Nat : cursor = <<x, y>>
  BY <1>1 DEF MapperTypeOK
<1>3. RotateDelta(d, view.rot) \in Directions
  BY PictureSides DEF RotateDelta, Directions, Angles
<1>4. PICK u \in {-1, 0, 1}, v \in {-1, 0, 1} : RotateDelta(d, view.rot) = <<u, v>>
  BY <1>3 DEF Directions
<1>5. x + by * u \in Int /\ y + by * v \in Int
  BY <1>2, <1>4
<1>6. \A n \in Int, max \in Nat : Clamp(n, max) \in 0..max
  BY DEF Clamp, Smaller
<1>7. Pushed(cursor, d, by) = <<Clamp(x + by * u, 2 * Display[1]), Clamp(y + by * v, 2 * Display[2])>>
  BY <1>2, <1>4 DEF Pushed
<1>8. /\ Clamp(x + by * u, 2 * Display[1]) \in 0..(2 * Display[1])
      /\ Clamp(y + by * v, 2 * Display[2]) \in 0..(2 * Display[2])
  <2>1. 2 * Display[1] \in Nat /\ 2 * Display[2] \in Nat
    BY <1>1
  <2> QED
    BY <2>1, <1>5, <1>6
<1> QED
  BY <1>7, <1>8

LEMMA InputKeepsIInv ==
  ASSUME IInv, InputEvent
  PROVE  IInv'
<1>1. UNCHANGED <<view, wlVars, threadVars>> /\ Handle
  BY DEF InputEvent
<1>2. {moving', late', stale'} \subseteq BOOLEAN /\ reads' \in 0..2
  <2>1. {moving, late, stale} \subseteq BOOLEAN /\ reads \in 0..2
    BY DEF IInv, TypeOK
  <2>2. CASE cursor' = cursor
    BY <2>1, <2>2 DEF InputEvent, cursorVars
  <2>3. CASE cursor' # cursor
    <3>1. late' = (reads > 0) /\ stale' = TRUE /\ moving' = moving /\ reads' = reads
      BY <2>3 DEF InputEvent
    <3>2. late' = TRUE \/ late' = FALSE
      BY <3>1
    <3> QED
      BY <2>1, <3>1, <3>2
  <2> QED
    BY <2>2, <2>3
<1> SUFFICES LinkSafe' /\ button' \in BOOLEAN /\ fingers' \subseteq Fingers /\ MapperTypeOK'
  BY <1>1, <1>2 DEF IInv, TypeOK, LinkTypeOK, LinkSafe, WaylandTypeOK, ViewOK, wlVars, threadVars
<1> USE DEF IInv, TypeOK, LinkTypeOK, MapperTypeOK
<1>3. ASSUME NEW f \in Fingers, NEW p \in TouchPoints, TouchDown(f, Centre(p))
      PROVE  LinkSafe' /\ button' \in BOOLEAN /\ fingers' \subseteq Fingers /\ MapperTypeOK'
  BY <1>1, <1>3, CentreIsPoint, EmitKeepsLink DEF TouchDown
<1>4. ASSUME NEW f \in Fingers, NEW p \in TouchPoints, TouchMotion(f, Centre(p))
      PROVE  LinkSafe' /\ button' \in BOOLEAN /\ fingers' \subseteq Fingers /\ MapperTypeOK'
  BY <1>1, <1>4, CentreIsPoint, EmitKeepsLink DEF TouchMotion, handVars, mapperVars
<1>5. ASSUME NEW f \in Fingers, TouchUp(f)
      PROVE  LinkSafe' /\ button' \in BOOLEAN /\ fingers' \subseteq Fingers /\ MapperTypeOK'
  BY <1>1, <1>5 DEF TouchUp, Send, LinkSafe, TouchesWhatIsShown
<1>6. ASSUME NEW d \in Directions, PointerMotion(d)
      PROVE  LinkSafe' /\ button' \in BOOLEAN /\ fingers' \subseteq Fingers /\ MapperTypeOK'
  <2>1. cursor' = Pushed(cursor, d, IF down THEN DragStep ELSE Step)
    BY <1>6 DEF PointerMotion
  <2>2. cursor' \in (0..(2 * Display[1])) \X (0..(2 * Display[2]))
    BY <2>1, StepsOK, PushedInside
  <2>3. cursor' \in Int \X Int
    BY <2>2, SizesOK
  <2>4. LinkSafe'
    BY <1>1, <1>6, <2>3, EmitKeepsLink DEF PointerMotion, linkVars, LinkSafe, TouchesWhatIsShown
  <2> QED
    BY <1>6, <2>2, <2>4 DEF PointerMotion, handVars
<1>7. ASSUME PointerButton
      PROVE  LinkSafe' /\ button' \in BOOLEAN /\ fingers' \subseteq Fingers /\ MapperTypeOK'
  <2>1. cursor \in Int \X Int
    BY SizesOK
  <2>2. LinkSafe'
    BY <1>1, <1>7, <2>1, EmitKeepsLink DEF PointerButton
  <2> QED
    BY <1>7, <2>2 DEF PointerButton
<1> QED
  BY <1>1, <1>3, <1>4, <1>5, <1>6, <1>7 DEF Handle

LEMMA LoopKeepsIInv ==
  ASSUME IInv, LoopEvent
  PROVE  IInv'
<1>1. /\ UNCHANGED <<view, mapperVars, threadVars, cursorVars>>
      /\ ui = "wayland" /\ WaylandHandle
  BY DEF LoopEvent
<1>2. view.rot = 0 /\ ViewOK /\ LinkSafe
  BY <1>1 DEF IInv, ViewOK
<1> DEFINE Kept == /\ LinkSafe' /\ button' \in BOOLEAN /\ fingers' \subseteq Fingers
                   /\ WaylandTypeOK' /\ pointer' \in Int \X Int
<1> SUFFICES Kept
  BY <1>1 DEF IInv, TypeOK, LinkTypeOK, LinkSafe, MapperTypeOK, ViewOK, mapperVars, threadVars,
              cursorVars
<1> USE DEF IInv, TypeOK, LinkTypeOK, WaylandTypeOK
<1>3. ASSUME linkVars' = linkVars PROVE LinkSafe'
  BY <1>1, <1>2, <1>3 DEF linkVars, LinkSafe, TouchesWhatIsShown
<1>4. ASSUME NEW f \in Fingers, NEW p \in TouchPoints, OnTouchDown(f, Centre(p))
      PROVE  Kept
  BY <1>1, <1>2, <1>3, <1>4, CentreIsPoint, SendKeepsLink DEF OnTouchDown
<1>5. ASSUME NEW f \in Fingers, NEW p \in TouchPoints, OnTouchMotion(f, Centre(p))
      PROVE  Kept
  BY <1>1, <1>2, <1>5, CentreIsPoint, SendKeepsLink DEF OnTouchMotion, handVars, wlVars
<1>6. ASSUME NEW f \in Fingers, OnTouchUp(f)
      PROVE  Kept
  BY <1>1, <1>2, <1>6 DEF OnTouchUp, Send, LinkSafe, TouchesWhatIsShown
<1>7. ASSUME NEW p \in TouchPoints, OnPointerMotion(Centre(p))
      PROVE  Kept
  BY <1>1, <1>2, <1>3, <1>7, CentreIsPoint, SendKeepsLink DEF OnPointerMotion, handVars
<1>8. ASSUME OnPointerButton PROVE Kept
  BY <1>1, <1>2, <1>8, SendKeepsLink DEF OnPointerButton
<1>9. ASSUME TouchCancelled \/ Sized PROVE Kept
  BY <1>3, <1>9 DEF TouchCancelled, Sized, handVars
<1> QED
  BY <1>1, <1>4, <1>5, <1>6, <1>7, <1>8, <1>9 DEF WaylandHandle

LEMMA IInvInit == Init => IInv
<1> SUFFICES ASSUME Init PROVE IInv
  OBVIOUS
<1>1. ViewOK
  BY ViewInit
<1>2. PICK w \in Nat \ {0}, h \in Nat \ {0} : view.size = <<w, h>>
  BY <1>1, PictureSides
<1>3. \A i \in 1..2 : last[i] \in 0..(2 * OutDims(view.size, view.rot)[i])
  BY <1>2 DEF Init, LinkInit, OutDims
<1>4. LinkSafe
  BY <1>3 DEF Init, LinkInit, LinkSafe, TouchesWhatIsShown
<1>5. MapperTypeOK
  <2>1. PICK x \in Nat \ {0}, y \in Nat \ {0} : Display = <<x, y>>
    BY SizesOK
  <2>2. cursor = <<x, y>> /\ x \in 0..(2 * x) /\ y \in 0..(2 * y)
    BY <2>1 DEF Init, MapperInit
  <2>3. dirty = FALSE /\ down = FALSE
    BY DEF Init, MapperInit
  <2> QED
    BY <2>1, <2>2, <2>3 DEF MapperTypeOK
<1>6. LinkTypeOK /\ WaylandTypeOK /\ pointer \in Int \X Int
  <2>1. pressed = FALSE /\ button = FALSE /\ fingers = {}
    BY DEF Init, LinkInit
  <2>2. /\ sized = FALSE /\ ptrDown = FALSE /\ cancelled = FALSE
        /\ pointer = <<0, 0>> /\ touchId = Nowhere
    BY DEF Init, WaylandInit
  <2> QED
    <3>1. {pressed, button} \subseteq BOOLEAN /\ {sized, ptrDown, cancelled} \subseteq BOOLEAN
      BY <2>1, <2>2, Zenon
    <3>2. fingers \subseteq Fingers /\ pointer \in Int \X Int /\ touchId \in Fingers \cup {Nowhere}
      BY <2>1, <2>2
    <3> QED
      BY <1>3, <3>1, <3>2 DEF LinkTypeOK, WaylandTypeOK
<1>7. TypeOK
  <2>1. ui \in {"kms", "wayland"} /\ main \in {"preroll", "loop"} /\ input = "none" /\ reads = 0
    BY DEF Init
  <2>2. gQuit = FALSE /\ keyQuit = FALSE /\ moving = FALSE /\ late = FALSE /\ stale = FALSE
    BY DEF Init
  <2> QED
    <3>1. {gQuit, keyQuit, moving, late, stale} \subseteq BOOLEAN
      BY <2>2, Zenon
    <3> QED
      BY <1>5, <1>6, <2>1, <3>1 DEF TypeOK
<1> QED
  BY <1>1, <1>4, <1>6, <1>7 DEF IInv

LEMMA IInvStep == IInv /\ [Next]_vars => IInv'
<1> SUFFICES ASSUME IInv, [Next]_vars PROVE IInv'
  OBVIOUS
<1> USE DEF IInv, TypeOK, LinkTypeOK, MapperTypeOK, WaylandTypeOK, LinkSafe, TouchesWhatIsShown,
            ViewOK
<1>1. CASE InputEvent
  BY <1>1, InputKeepsIInv DEF InputEvent
<1>2. CASE LoopEvent
  BY <1>2, LoopKeepsIInv DEF LoopEvent
<1>3. CASE QuitKey \/ InputExits \/ QuitSignal
  BY <1>3 DEF QuitKey, InputExits, QuitSignal, linkVars, handVars, mapperVars, wlVars, cursorVars
<1>4. CASE PrerollQuits \/ FirstCommit \/ FirstCommitFails \/ RenderQuits \/ CommitFails
             \/ JoinInput \/ LoopEnds
  BY <1>4 DEF PrerollQuits, FirstCommit, FirstCommitFails, RenderQuits, CommitFails, JoinInput,
              LoopEnds, Main, linkVars, handVars, mapperVars, wlVars, cursorVars
<1>5. CASE TakeDirty \/ ReadAxis \/ MoveCursor
  <2>1. /\ UNCHANGED <<view, linkVars, handVars, wlVars, threadVars, cursor, down>>
        /\ {dirty', moving', late', stale'} \subseteq BOOLEAN
        /\ reads' \in 0..2
    <3>1. CASE TakeDirty
      BY <3>1 DEF TakeDirty, CursorUnchanged
    <3>2. CASE ReadAxis
      BY <3>2 DEF ReadAxis, CursorUnchanged
    <3>3. CASE MoveCursor
      <4>1. /\ UNCHANGED <<view, linkVars, handVars, wlVars, threadVars, cursor, down, dirty>>
            /\ moving' = FALSE /\ late' = FALSE /\ stale' = late /\ reads' = 0
        BY <3>3 DEF MoveCursor, CursorUnchanged
      <4>2. {dirty, late} \subseteq BOOLEAN
        OBVIOUS
      <4>3. {dirty', moving', late', stale'} \subseteq BOOLEAN
        BY <4>1, <4>2, Zenon
      <4> QED
        BY <4>1, <4>3
    <3> QED
      BY <1>5, <3>1, <3>2, <3>3
  <2> QED
    BY <2>1 DEF linkVars, handVars, wlVars, threadVars
<1>6. CASE UNCHANGED vars
  BY <1>6 DEF vars, linkVars, handVars, mapperVars, wlVars, threadVars, cursorVars
<1> QED
  BY <1>1, <1>2, <1>3, <1>4, <1>5, <1>6 DEF Next

\* No point leaves the picture or the display, for all displays and pictures.
THEOREM TypeCorrect == Spec => []TypeOK
<1>1. IInv => TypeOK
  BY DEF IInv
<1> QED
  BY <1>1, IInvInit, IInvStep, PTL DEF Spec

\* Where the user touches is where the dongle is touched, and a drag follows
\* the picture: input_touch.h:95-161 against rotate_nv12(), rot_matrix() and
\* the plane.
THEOREM TouchHitsPicture == Spec => []InputMatchesPicture
<1>1. IInv => InputMatchesPicture
  BY DragMeetsPicture DEF IInv, LinkSafe, TypeOK, InputMatchesPicture
<1> QED
  BY <1>1, IInvInit, IInvStep, PTL DEF Spec

=============================================================================
