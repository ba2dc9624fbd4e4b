----------------------------- MODULE TouchInput -----------------------------
(***************************************************************************)
(* The user's side of the two programs.  In carlinkit-kms ("kms",          *)
(* src/src/main_kms.cpp) an input thread feeds the TouchMapper while the   *)
(* render thread moves the hardware cursor, until a signal, the phone      *)
(* (RequestHostUI) or a key ends both.  In carlinkit-wayland ("wayland")   *)
(* one event loop does all.                                                *)
(***************************************************************************)
EXTENDS TouchMapper, WaylandInput

VARIABLES
  ui,       \* the program
  main,     \* its main thread: "preroll", "loop", "join" (of the input thread)
            \* or "stopped" (manager.stop() has been called)
  input,    \* the input thread: "none", "run" or "exited"
  gQuit,    \* g_quit; g_running is false
  keyQuit,  \* quit_ of the TouchMapper
  moving,   \* the render thread is between take_cursor_dirty() and move_to()
  reads,    \* how many axes of the cursor it has read there
  late,     \* history: the cursor has moved since the first of them
  stale     \* history: the hardware cursor is not where the cursor is

threadVars == <<ui, main, input, gQuit, keyQuit>>
cursorVars == <<moving, reads, late, stale>>
vars == <<view, linkVars, handVars, mapperVars, wlVars, threadVars, cursorVars>>

TypeOK ==
  /\ LinkTypeOK
  /\ MapperTypeOK
  /\ WaylandTypeOK
  /\ ui \in {"kms", "wayland"}
  /\ main \in {"preroll", "loop", "join", "stopped"}
  /\ input \in {"none", "run", "exited"}
  /\ {gQuit, keyQuit, moving, late, stale} \subseteq BOOLEAN
  /\ reads \in 0..2

Init ==
  /\ ui \in {"kms", "wayland"}
  /\ LinkInit
  /\ ui = "wayland" => view = View(0, "plane", TRUE)
  /\ MapperInit
  /\ WaylandInit
  /\ main = IF ui = "kms" THEN "preroll" ELSE "loop"
  /\ input = "none"
  /\ gQuit = FALSE
  /\ keyQuit = FALSE
  /\ moving = FALSE
  /\ reads = 0
  /\ late = FALSE
  /\ stale = FALSE

(***************************************************************************)
(* carlinkit-kms, the input thread: one event of seat->dispatch().         *)
(***************************************************************************)
InputEvent ==
  /\ input = "run"
  /\ Handle
  /\ IF cursor' = cursor THEN UNCHANGED cursorVars
                         ELSE /\ late' = (reads > 0)
                              /\ stale' = TRUE
                              /\ UNCHANGED <<moving, reads>>
  /\ UNCHANGED <<view, wlVars, threadVars>>

QuitKey ==
  /\ input = "run"
  /\ keyQuit' = TRUE
  /\ UNCHANGED <<view, linkVars, handVars, mapperVars, wlVars, cursorVars, ui, main, input, gQuit>>

\* Mutant: the thread looks at g_quit only.
InputExits_SignalOnly ==
  /\ input = "run"
  /\ gQuit
  /\ input' = "exited"
  /\ UNCHANGED <<view, linkVars, handVars, mapperVars, wlVars, cursorVars, ui, main, gQuit, keyQuit>>

InputExits ==
  /\ input = "run"
  /\ gQuit \/ keyQuit
  /\ input' = "exited"
  /\ UNCHANGED <<view, linkVars, handVars, mapperVars, wlVars, cursorVars, ui, main, gQuit, keyQuit>>

(***************************************************************************)
(* carlinkit-kms, the main thread.                                         *)
(***************************************************************************)
Main(place) ==
  /\ main' = place
  /\ UNCHANGED <<view, linkVars, handVars, mapperVars, wlVars, cursorVars, ui, gQuit, keyQuit>>

PrerollQuits == main = "preroll" /\ gQuit /\ Main("stopped") /\ UNCHANGED input

\* The first frame and the first commit; a seat may be there or not.
FirstCommit ==
  /\ main = "preroll"
  /\ Main("loop")
  /\ input' \in {"none", "run"}

FirstCommitFails == main = "preroll" /\ Main("stopped") /\ UNCHANGED input

RenderQuits ==
  /\ ui = "kms"
  /\ main = "loop"
  /\ ~moving
  /\ gQuit \/ keyQuit
  /\ Main("join")
  /\ UNCHANGED input

\* The loop is left, and nobody is told.
CommitFails ==
  /\ ui = "kms"
  /\ main = "loop"
  /\ ~moving
  /\ Main("join")
  /\ UNCHANGED input

JoinInput ==
  /\ main = "join"
  /\ input \in {"none", "exited"}
  /\ Main("stopped")
  /\ UNCHANGED input

CursorUnchanged == UNCHANGED <<view, linkVars, handVars, wlVars, threadVars, cursor, down>>

\* take_cursor_dirty().
TakeDirty ==
  /\ main = "loop"
  /\ ~moving
  /\ dirty
  /\ dirty' = FALSE
  /\ moving' = TRUE
  /\ CursorUnchanged
  /\ UNCHANGED <<reads, late, stale>>

\* cursor_x() and cursor_y(), in the order the compiler chooses.
ReadAxis ==
  /\ moving
  /\ reads < 2
  /\ reads' = reads + 1
  /\ CursorUnchanged
  /\ UNCHANGED <<dirty, moving, late, stale>>

\* Mutant: the flag is cleared when the cursor has been moved.
MoveCursor_ClearsDirty ==
  /\ reads = 2
  /\ moving' = FALSE
  /\ reads' = 0
  /\ late' = FALSE
  /\ stale' = late
  /\ dirty' = FALSE
  /\ CursorUnchanged

\* cursor->move_to().
MoveCursor ==
  /\ reads = 2
  /\ moving' = FALSE
  /\ reads' = 0
  /\ late' = FALSE
  /\ stale' = late
  /\ CursorUnchanged
  /\ UNCHANGED dirty

(***************************************************************************)
(* carlinkit-wayland, and who asks the programs to quit.                   *)
(***************************************************************************)
LoopEvent ==
  /\ ui = "wayland"
  /\ main = "loop"
  /\ WaylandHandle
  /\ UNCHANGED <<view, mapperVars, threadVars, cursorVars>>

LoopEnds ==
  /\ ui = "wayland"
  /\ main = "loop"
  /\ gQuit
  /\ Main("stopped")
  /\ UNCHANGED input

QuitSignal ==
  /\ gQuit' = TRUE
  /\ UNCHANGED <<view, linkVars, handVars, mapperVars, wlVars, cursorVars, ui, main, input, keyQuit>>

Next ==
  \/ InputEvent \/ QuitKey \/ InputExits
  \/ PrerollQuits \/ FirstCommit \/ FirstCommitFails
  \/ RenderQuits \/ CommitFails \/ JoinInput
  \/ TakeDirty \/ ReadAxis \/ MoveCursor
  \/ LoopEvent \/ LoopEnds \/ QuitSignal

\* The threads run.  The user need do nothing, frames need not come, and no
\* commit need fail.
Fairness ==
  /\ WF_vars(InputExits)
  /\ WF_vars(PrerollQuits) /\ WF_vars(RenderQuits) /\ WF_vars(JoinInput) /\ WF_vars(LoopEnds)
  /\ WF_vars(ReadAxis) /\ WF_vars(MoveCursor)

Spec == Init /\ [][Next]_vars /\ Fairness

-----------------------------------------------------------------------------
\* Where the user touches is where the dongle is touched: the point sent lies in
\* the pixel of the decoded picture that is shown under the finger, whoever of
\* plane, GPU and CPU rotates; and a mouse moved along the picture drags along
\* the picture.
TouchesWhatIsShown ==
  at # Nowhere => Covers(view, ShownUnder(view, at), last)

DragsWithPicture ==
  \A d \in Directions :
    LET next == Pushed(cursor, d, 1)
        here == ToVideo(Local(view, cursor), view.size, view.rot)
    IN InVideo(view, cursor) /\ InVideo(view, next) /\ next # cursor
         => ToVideo(Local(view, next), view.size, view.rot) = <<here[1] + d[1], here[2] + d[2]>>

InputMatchesPicture == TouchesWhatIsShown /\ DragsWithPicture

\* Once nothing is held down any more nothing is held down for the dongle,
\* wherever on the display, with however many fingers and with the mouse in
\* between it was; but a contact that a compositor has cancelled stays down.
NoStuckTouch == fingers = {} /\ ~button /\ ~cancelled => ~pressed

\* The hardware cursor is where the TouchMapper's cursor is, or will be moved
\* again: a movement between the two reads, or after them, is not lost.
CursorFollows == stale => dirty \/ moving

\* "Quit with Esc / Q / Ctrl-C" (README.md:233): the program ends once it is
\* asked to, in the middle of anything, also when a commit has failed before.
QuitEnds == gQuit \/ keyQuit ~> main = "stopped"
=============================================================================
