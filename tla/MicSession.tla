----------------------------- MODULE MicSession -----------------------------
(***************************************************************************)
(* The supervisor together with the microphone, as carlinkit-kms and       *)
(* carlinkit-wayland wire them (src/src/main_kms.cpp, main_wayland.cpp):   *)
(* the audio sink, called by the session's event thread, starts and stops  *)
(* the AudioInput of src/src/audio_alsa.cpp on the phone's commands; its   *)
(* capture thread hands every buffer to DongleManager::send(); and at the  *)
(* end the main thread stops the manager and then the microphone.          *)
(***************************************************************************)
EXTENDS DongleManager

CONSTANT Mic  \* the capture thread, one of the Senders

ASSUME MicIsSender == Mic \in Senders

VARIABLES
  micRunning,  \* AudioInput::running_
  mic,         \* the capture thread: "none" (not made, or joined), "capture",
               \* "send" (in its callback) or "exited" (returned, not joined)
  sinkPc,      \* the event thread in the audio sink: "out", the command it
               \* handles ("start", "stop", "other") or "join" in mic.stop()
  tail         \* the main thread and its mic.stop(): "before", "join" or "after"

micVars == <<micRunning, mic, sinkPc, tail>>
allVars == <<vars, micVars>>

MicTypeOK ==
  /\ TypeOK
  /\ micRunning \in BOOLEAN
  /\ mic \in {"none", "capture", "send", "exited", "lost"}
  /\ sinkPc \in {"out", "start", "stop", "other", "join"}
  /\ tail \in {"before", "join", "after"}

MicInit ==
  /\ Init
  /\ micRunning = FALSE
  /\ mic = "none"
  /\ sinkPc = "out"
  /\ tail = "before"

(***************************************************************************)
(* The sink, on the event thread.                                          *)
(***************************************************************************)
AudioCommand(cmd) ==
  /\ EnterSink
  /\ sinkPc' = cmd
  /\ UNCHANGED <<micRunning, mic, tail>>

\* AudioInput::start(): assigns a new thread unless it is running.  Assigning
\* over a thread nobody has joined ends the program, here "lost".
MicStart ==
  /\ sinkPc = "start"
  /\ LeaveSink
  /\ sinkPc' = "out"
  /\ micRunning' = TRUE
  /\ mic' = IF micRunning THEN mic ELSE IF mic = "none" THEN "capture" ELSE "lost"
  /\ UNCHANGED tail

\* Mutant: stop() clears running_ and does not join.
MicStop_NoJoin ==
  /\ sinkPc = "stop"
  /\ micRunning
  /\ micRunning' = FALSE
  /\ LeaveSink
  /\ sinkPc' = "out"
  /\ UNCHANGED <<mic, tail>>

\* AudioInput::stop(): returns at once unless it is running, else joins.
MicStop ==
  /\ sinkPc = "stop"
  /\ micRunning
  /\ micRunning' = FALSE
  /\ sinkPc' = "join"
  /\ UNCHANGED <<vars, mic, tail>>

MicJoined ==
  /\ sinkPc = "join"
  /\ mic = "exited"
  /\ mic' = "none"
  /\ LeaveSink
  /\ sinkPc' = "out"
  /\ UNCHANGED <<micRunning, tail>>

SinkReturns ==
  /\ sinkPc = "other" \/ (sinkPc = "stop" /\ ~micRunning)
  /\ LeaveSink
  /\ sinkPc' = "out"
  /\ UNCHANGED <<micRunning, mic, tail>>

(***************************************************************************)
(* AudioInput::run(), on the capture thread.                               *)
(***************************************************************************)
MicCapture ==
  /\ mic = "capture"
  /\ micRunning
  /\ SendCall(Mic)
  /\ mic' = "send"
  /\ UNCHANGED <<micRunning, sinkPc, tail>>

MicSent ==
  /\ mic = "send"
  /\ sender[Mic] = "idle"
  /\ mic' = "capture"
  /\ UNCHANGED <<vars, micRunning, sinkPc, tail>>

MicExits ==
  /\ mic = "capture"
  /\ ~micRunning
  /\ mic' = "exited"
  /\ UNCHANGED <<vars, micRunning, sinkPc, tail>>

(***************************************************************************)
(* The end of main(): mic.stop() after manager.stop().  The error exits of *)
(* carlinkit-kms leave it to the destructor of AudioInput, which does the  *)
(* same; by then the manager has been destroyed, which is not modelled.    *)
(***************************************************************************)
\* Mutant: main() does not stop the microphone.
MainMicStop_Missing ==
  /\ main = "done"
  /\ tail = "before"
  /\ tail' = "after"
  /\ UNCHANGED <<vars, micRunning, mic, sinkPc>>

\* Mutant: it does so before manager.stop().
MainMicStop_First ==
  /\ main = "join"
  /\ tail = "before"
  /\ micRunning' = FALSE
  /\ tail' = IF micRunning THEN "join" ELSE "after"
  /\ UNCHANGED <<vars, mic, sinkPc>>

\* AudioInput::stop() again: it returns at once unless it is running.
MainMicStop ==
  /\ main = "done"
  /\ tail = "before"
  /\ micRunning' = FALSE
  /\ tail' = IF micRunning THEN "join" ELSE "after"
  /\ UNCHANGED <<vars, mic, sinkPc>>

MainMicJoined ==
  /\ tail = "join"
  /\ mic = "exited"
  /\ mic' = "none"
  /\ tail' = "after"
  /\ UNCHANGED <<vars, micRunning, sinkPc>>

\* What the manager, the other senders and the bus do by themselves.
ManagerAlone ==
  /\ \/ ManagerStart \/ ManagerStop \/ MainStep \/ SupStep
     \/ \E s \in Senders \ {Mic} : SendCall(s)
     \/ \E s \in Senders : SendLock(s) \/ SendReturn(s)
     \/ NoticeRemoval \/ EventThreadExits \/ EndStop \/ BusStep
  /\ UNCHANGED micVars

MicNext ==
  \/ ManagerAlone
  \/ \E cmd \in {"start", "stop", "other"} : AudioCommand(cmd)
  \/ MicStart \/ MicStop \/ MicJoined \/ SinkReturns
  \/ MicCapture \/ MicSent \/ MicExits
  \/ MainMicStop \/ MainMicJoined
  \/ (tail = "after" /\ UNCHANGED allVars)

(***************************************************************************)
(* As in DongleManager, and the event, capture and main threads run.       *)
(* The capture thread does not have to hear anything: no fairness makes    *)
(* MicCapture happen.                                                      *)
(***************************************************************************)
MicFairness ==
  /\ ManagerFairness
  /\ WF_allVars(MicStart) /\ WF_allVars(MicStop) /\ WF_allVars(MicJoined)
  /\ WF_allVars(SinkReturns)
  /\ WF_allVars(MicSent) /\ WF_allVars(MicExits)
  /\ WF_allVars(MainMicStop) /\ WF_allVars(MainMicJoined)

MicSpec == MicInit /\ [][MicNext]_allVars /\ MicFairness

(***************************************************************************)
(* Properties.                                                             *)
(***************************************************************************)
\* The cycle in which the holder of mu_ is in dongle_->stop(), joining the
\* event thread; the event thread is in mic.stop(), joining the capture
\* thread; and the capture thread is in send(), waiting for mu_.
CircularWait ==
  /\ phase = "stopping" /\ mu \in {Sup, Main}
  /\ sinkPc = "join"
  /\ mic = "send" /\ sender[Mic] = "waiting"

\* "tears the session down cleanly on surprise removal, and reconnects": no
\* teardown ever waits for itself.
NoCircularWait == ~CircularWait

\* A capture thread is never overwritten before it has been joined, across
\* sessions and commands in any order.
MicThreadJoined == mic # "lost"

\* What keeps the supervisor from serving the next device: a teardown that
\* waits for itself, or a session whose start() failed (DongleManager's
\* BrokenSessionReplaced).
Obstructed == CircularWait \/ phase = "broken"

\* A dongle that stays plugged in and usable ends up connected, with a session
\* that runs, unless the application stops or the supervisor is obstructed.
ReconnectsOrWaits ==
  <>[](device = "ok") =>
    \/ <>(main = "join")
    \/ <>[](connected /\ phase = "up" /\ ~failed)
    \/ <>[]Obstructed

\* A dongle that cannot be claimed does not stay so, with the same exceptions.
StuckIsResetOrWaits ==
  (device = "stuck" /\ main = "running")
    ~> (device # "stuck" \/ main # "running" \/ Obstructed)

\* When the device has gone for good, stop() returns and the microphone is
\* stopped after it, unless the teardown waits for itself.
QuitCompletes ==
  <>[](device = "absent") =>
    (main = "join" ~> (CircularWait \/ (tail = "after" /\ mic = "none")))

\* When main()'s mic.stop() has returned there is no capture thread, and none
\* comes back, so none can call the manager that is destroyed next: mic.stop()
\* joins nothing if another thread's mic.stop() was first, and the event thread
\* can start the microphone as long as it runs.
MicGoneAfterStop == tail = "after" => mic = "none" /\ ~micRunning
=============================================================================
