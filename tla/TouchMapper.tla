---------------------------- MODULE TouchMapper ----------------------------
(***************************************************************************)
(* src/src/input_touch.h: the input thread of carlinkit-kms turns libinput *)
(* events, of a touchscreen and of a mouse that moves a cursor, into touch *)
(* messages.  The cursor is shared with the render thread, under cur_m_.   *)
(***************************************************************************)
EXTENDS TouchLink

CONSTANTS
  Step,     \* how far a mouse event moves the cursor, in half pixels: gain_
  DragStep  \* the same with down_: drag_gain_

ASSUME StepsOK == {Step, DragStep} \subseteq Nat

VARIABLES
  cursor,  \* cx_, cy_
  dirty,   \* cursor_dirty_
  down     \* down_

mapperVars == <<cursor, dirty, down>>

MapperTypeOK ==
  /\ cursor \in (0..(2 * Display[1])) \X (0..(2 * Display[2]))
  /\ {dirty, down} \subseteq BOOLEAN

MapperInit ==
  /\ cursor = Display
  /\ dirty = FALSE
  /\ down = FALSE

\* Mutant: nothing outside the video is sent.
Emit_InsideOnly(action, p) ==
  IF InVideo(view, p)
    THEN Send(action, ToVideo(Local(view, p), view.size, view.rot)) /\ at' = p
    ELSE UNCHANGED linkVars

\* emit(): a Down or Move outside the video is not sent, an Up is sent for the
\* last point inside.
Emit(action, p) ==
  IF InVideo(view, p)
    THEN Send(action, ToVideo(Local(view, p), view.size, view.rot)) /\ at' = p
    ELSE /\ IF action = "up" THEN Send("up", last) ELSE UNCHANGED <<last, pressed>>
         /\ UNCHANGED at

(***************************************************************************)
(* handle_touch(), which looks at no slot.                                 *)
(***************************************************************************)
TouchDown(f, p) ==
  /\ f \notin fingers
  /\ fingers' = fingers \cup {f}
  /\ down' = TRUE
  /\ Emit("down", p)
  /\ UNCHANGED <<button, cursor, dirty>>

TouchMotion(f, p) ==
  /\ f \in fingers
  /\ down
  /\ Emit("move", p)
  /\ UNCHANGED <<handVars, mapperVars>>

\* Up or Cancel.
TouchUp(f) ==
  /\ f \in fingers
  /\ fingers' = fingers \ {f}
  /\ IF down THEN Send("up", last) ELSE UNCHANGED <<last, pressed>>
  /\ down' = FALSE
  /\ UNCHANGED <<at, button, cursor, dirty>>

(***************************************************************************)
(* handle_pointer().                                                       *)
(***************************************************************************)
Directions == {<<1, 0>>, <<-1, 0>>, <<0, 1>>, <<0, -1>>}

\* Mutant: the cursor is not held on the display.
Clamp_Not(n, max) == n

Clamp(n, max) == IF n < 0 THEN 0 ELSE Smaller(n, max)

Pushed(c, d, by) ==
  LET turned == RotateDelta(d, view.rot)
  IN <<Clamp(c[1] + by * turned[1], 2 * Display[1]),
       Clamp(c[2] + by * turned[2], 2 * Display[2])>>

\* A movement; while something is down it is sent, unless it comes within
\* touch_interval_ of the last one that was.
PointerMotion(d) ==
  /\ cursor' = Pushed(cursor, d, IF down THEN DragStep ELSE Step)
  /\ dirty' = TRUE
  /\ \/ down /\ Emit("move", cursor')
     \/ UNCHANGED linkVars
  /\ UNCHANGED <<handVars, down>>

PointerButton ==
  /\ button' = ~button
  /\ down' = button'
  /\ Emit(IF button' THEN "down" ELSE "up", cursor)
  /\ UNCHANGED <<fingers, cursor, dirty>>

Handle ==
  \/ \E f \in Fingers, p \in TouchPoints :
       TouchDown(f, Centre(p)) \/ TouchMotion(f, Centre(p))
  \/ \E f \in Fingers : TouchUp(f)
  \/ \E d \in Directions : PointerMotion(d)
  \/ PointerButton
=============================================================================
