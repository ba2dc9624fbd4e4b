---------------------------- MODULE WaylandInput ----------------------------
(***************************************************************************)
(* The input handlers of carlinkit-wayland (src/src/main_wayland.cpp), all *)
(* on its event loop: the left button's drag and the first contact of a    *)
(* touchscreen become touch messages.  The compositor has turned points    *)
(* into the surface's frame; a grab delivers points outside of it.         *)
(* WlTouchHandler does not listen to wl_touch.cancel.                      *)
(***************************************************************************)
EXTENDS TouchLink

VARIABLES
  sized,      \* surf_w_ > 0: a frame has been presented
  pointer,    \* WlPointerHandler's x_, y_
  ptrDown,    \* ptr_down_
  touchId,    \* touch_id_, or Nowhere for -1
  cancelled   \* history: the contact touch_id_ stands for was cancelled

wlVars == <<sized, pointer, ptrDown, touchId, cancelled>>

WaylandTypeOK ==
  /\ {sized, ptrDown, cancelled} \subseteq BOOLEAN
  /\ touchId \in Fingers \cup {Nowhere}

WaylandInit ==
  /\ sized = FALSE
  /\ pointer = <<0, 0>>
  /\ ptrDown = FALSE
  /\ touchId = Nowhere
  /\ cancelled = FALSE

Within(n, max) == IF n < 0 THEN 0 ELSE Smaller(n, max)

OnSurface(p) ==
  LET l == Local(view, p) IN <<Within(l[1], 2 * view.size[1]), Within(l[2], 2 * view.size[2])>>

SendTouchNorm(action, p) ==
  IF sized
    THEN /\ Send(action, OnSurface(p))
         /\ at' = IF InVideo(view, p) THEN p ELSE Nowhere
    ELSE UNCHANGED linkVars

OnPointerMotion(p) ==
  /\ pointer' = p
  /\ IF ptrDown THEN SendTouchNorm("move", p) ELSE UNCHANGED linkVars
  /\ UNCHANGED <<handVars, sized, ptrDown, touchId, cancelled>>

OnPointerButton ==
  /\ button' = ~button
  /\ ptrDown' = button'
  /\ SendTouchNorm(IF button' THEN "down" ELSE "up", pointer)
  /\ UNCHANGED <<fingers, sized, pointer, touchId, cancelled>>

OnTouchDown(f, p) ==
  /\ f \notin fingers
  /\ fingers' = fingers \cup {f}
  /\ IF touchId = Nowhere
       THEN touchId' = f /\ SendTouchNorm("down", p)
       ELSE UNCHANGED <<linkVars, touchId>>
  /\ UNCHANGED <<button, sized, pointer, ptrDown, cancelled>>

OnTouchMotion(f, p) ==
  /\ f \in fingers
  /\ f = touchId
  /\ SendTouchNorm("move", p)
  /\ UNCHANGED <<handVars, wlVars>>

\* Mutant: the up of any contact is sent, and only the first one's forgotten.
OnTouchUp_NotFirst(f) ==
  /\ f \in fingers
  /\ fingers' = fingers \ {f}
  /\ IF f # touchId
       THEN touchId' = Nowhere /\ cancelled' = FALSE
       ELSE UNCHANGED <<touchId, cancelled>>
  /\ UNCHANGED <<linkVars, button, sized, pointer, ptrDown>>

\* SendTouchUp() needs no surface.
OnTouchUp(f) ==
  /\ f \in fingers
  /\ fingers' = fingers \ {f}
  /\ IF f = touchId
       THEN touchId' = Nowhere /\ cancelled' = FALSE /\ Send("up", last)
       ELSE UNCHANGED <<last, pressed, touchId, cancelled>>
  /\ UNCHANGED <<at, button, sized, pointer, ptrDown>>

\* The compositor takes all contacts back: nothing handles it.
TouchCancelled ==
  /\ fingers # {}
  /\ fingers' = {}
  /\ cancelled' = (cancelled \/ touchId \in fingers)
  /\ UNCHANGED <<linkVars, button, sized, pointer, ptrDown, touchId>>

\* RenderIfReady() has presented the first frame.
Sized ==
  /\ ~sized
  /\ sized' = TRUE
  /\ UNCHANGED <<linkVars, handVars, pointer, ptrDown, touchId, cancelled>>

WaylandHandle ==
  \/ \E f \in Fingers, p \in TouchPoints :
       OnTouchDown(f, Centre(p)) \/ OnTouchMotion(f, Centre(p))
  \/ \E f \in Fingers : OnTouchUp(f)
  \/ \E p \in TouchPoints : OnPointerMotion(Centre(p))
  \/ OnPointerButton
  \/ TouchCancelled
  \/ Sized
=============================================================================
