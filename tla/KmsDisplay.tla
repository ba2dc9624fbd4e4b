---------------------------- MODULE KmsDisplay ----------------------------
(***************************************************************************)
(* The display thread of carlinkit-kms (src/src/main_kms.cpp): the preroll *)
(* that waits for the first frame, the first commit, and the render loop   *)
(* that commits when no page flip is pending and the source has something  *)
(* new.  The drm-cxx scene and the kernel are external: a commit acquires  *)
(* one buffer from the source and queues it, the kernel flips to it later, *)
(* and once the flip is complete, before the next commit, the scene        *)
(* releases the buffer that left the screen.                               *)
(***************************************************************************)
EXTENDS DecodeThread

VARIABLES
  disp,         \* where the thread is, see Places
  flipPending,  \* flip_pending
  got,          \* the buffer acquired last, in the preroll or for a commit
  queued,       \* the buffer the kernel will flip to, or None
  onScreen,     \* the buffer the kernel scans out, or None
  prev,         \* the buffer that left the screen and is not yet released
  shown         \* history: the frame of the last commit

kmsVars == <<disp, flipPending, got, queued, onScreen, prev, shown>>

Places == {"preroll",  \* no frame yet
           "peeked",   \* has acquired the first frame and gives it back
           "commit",   \* in scene->commit(), about to acquire
           "submit",   \* in scene->commit(), has acquired
           "loop",     \* in the render loop
           "done"}

KmsTypeOK(buffers) ==
  /\ disp \in Places
  /\ flipPending \in BOOLEAN
  /\ shown \in 0..MaxFrames
  /\ {got, queued, onScreen, prev} \subseteq buffers \cup {None}

KmsInit ==
  /\ disp = "preroll"
  /\ flipPending = FALSE
  /\ got = None
  /\ queued = None
  /\ onScreen = None
  /\ prev = None
  /\ shown = 0

\* The preroll's acquire() succeeds with buffer b.
PrerollTakes(b) ==
  /\ disp = "preroll"
  /\ disp' = "peeked"
  /\ got' = b
  /\ UNCHANGED <<flipPending, queued, onScreen, prev, shown>>

\* It releases the buffer and goes on to the first commit.
PrerollGivesBack ==
  /\ disp = "peeked"
  /\ disp' = "commit"
  /\ got' = None
  /\ UNCHANGED <<flipPending, queued, onScreen, prev, shown>>

\* The scene acquires buffer b for a commit.
CommitTakes(b) ==
  /\ disp = "commit"
  /\ disp' = "submit"
  /\ got' = b
  /\ UNCHANGED <<flipPending, queued, onScreen, prev, shown>>

\* The kernel accepts the commit of the buffer, which holds the given frame.
CommitQueued(frame) ==
  /\ disp = "submit"
  /\ disp' = "loop"
  /\ queued' = got
  /\ flipPending' = TRUE
  /\ shown' = frame
  /\ UNCHANGED <<got, onScreen, prev>>

\* It refuses: the program gives up.
CommitFails ==
  /\ disp = "submit"
  /\ disp' = "done"
  /\ UNCHANGED <<flipPending, got, queued, onScreen, prev, shown>>

\* The vertical blank: the queued buffer replaces the one on the screen.
Flip ==
  /\ queued # None
  /\ onScreen' = queued
  /\ prev' = onScreen
  /\ queued' = None
  /\ UNCHANGED <<disp, flipPending, got, shown>>

\* page_flip.dispatch() calls the flip handler.
FlipHandled ==
  /\ disp = "loop"
  /\ flipPending
  /\ queued = None
  /\ flipPending' = FALSE
  /\ UNCHANGED <<disp, got, queued, onScreen, prev, shown>>

\* The scene gives back the buffer that left the screen.
SceneReleases ==
  /\ disp = "loop"
  /\ ~flipPending
  /\ prev # None
  /\ prev' = None
  /\ UNCHANGED <<disp, flipPending, got, queued, onScreen, shown>>

\* The render loop decides to commit.
RenderStarts(fresh) ==
  /\ disp = "loop"
  /\ ~flipPending
  /\ fresh
  /\ prev = None
  /\ disp' = "commit"
  /\ UNCHANGED <<flipPending, got, queued, onScreen, prev, shown>>

\* g_quit or mapper.quit(), looked at between two frames.
Quit ==
  /\ disp \in {"preroll", "loop"}
  /\ disp' = "done"
  /\ UNCHANGED <<flipPending, got, queued, onScreen, prev, shown>>
=============================================================================
