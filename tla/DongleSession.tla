--------------------------- MODULE DongleSession ---------------------------
(***************************************************************************)
(* What one dongle session (one ck::Dongle object over one claimed USB     *)
(* device) promises the supervisor that owns it, and nothing of how the    *)
(* transfers are run:                                                      *)
(*   - start() ends in success or in failure, stop() may be called after   *)
(*     either, and stop() of a failed start returns at once;               *)
(*   - the application's sink is called only by the session's event        *)
(*     thread, which lives from the middle of start() until stop() has     *)
(*     joined it;                                                          *)
(*   - failed() becomes true only after the device has really gone, and    *)
(*     only for a session whose start() has not failed;                    *)
(*   - a session that is up when its device goes notices it, and a stop()  *)
(*     of a session whose device is gone returns.                          *)
(* Dongle.tla implements this; DongleManager.tla is written on top of it.  *)
(***************************************************************************)

VARIABLES
  phase,    \* where the owner is: see Phases
  sinkCall, \* the event thread: "none", "idle", "busy" in the sink, "done"
  failed,   \* Dongle::failed()
  present   \* the device is plugged in

svars == <<phase, sinkCall, failed, present>>

Phases == {"new", "starting", "up", "broken", "stopping", "stopped"}

SessionTypeOK ==
  /\ phase \in Phases
  /\ sinkCall \in {"none", "idle", "busy", "done"}
  /\ failed \in BOOLEAN
  /\ present \in BOOLEAN

SessionInit ==
  /\ phase = "new"
  /\ sinkCall = "none"
  /\ failed = FALSE
  /\ present = TRUE

BeginStart ==
  /\ phase = "new"
  /\ phase' = "starting"
  /\ UNCHANGED <<sinkCall, failed, present>>

\* start() returned false before it created the event thread.
StartFails ==
  /\ phase = "starting"
  /\ sinkCall = "none"
  /\ phase' = "broken"
  /\ UNCHANGED <<sinkCall, failed, present>>

EventThreadStarts ==
  /\ phase = "starting"
  /\ sinkCall = "none"
  /\ sinkCall' = "idle"
  /\ UNCHANGED <<phase, failed, present>>

StartSucceeds ==
  /\ phase = "starting"
  /\ sinkCall # "none"
  /\ phase' = "up"
  /\ UNCHANGED <<sinkCall, failed, present>>

\* A message reaches the sink, and the sink returns.
EnterSink ==
  /\ sinkCall = "idle"
  /\ sinkCall' = "busy"
  /\ UNCHANGED <<phase, failed, present>>

LeaveSink ==
  /\ sinkCall = "busy"
  /\ sinkCall' = "idle"
  /\ UNCHANGED <<phase, failed, present>>

Unplug ==
  /\ present
  /\ present' = FALSE
  /\ UNCHANGED <<phase, sinkCall, failed>>

\* A transfer hits LIBUSB_ERROR_NO_DEVICE or LIBUSB_TRANSFER_NO_DEVICE.
NoticeRemoval ==
  /\ ~present
  /\ phase \in {"starting", "up", "stopping"}
  /\ sinkCall # "none"
  /\ failed' = TRUE
  /\ UNCHANGED <<phase, sinkCall, present>>

BeginStop ==
  /\ phase = "up"
  /\ phase' = "stopping"
  /\ UNCHANGED <<sinkCall, failed, present>>

\* running_ is already false after a failed start: stop() does nothing.
StopBroken ==
  /\ phase = "broken"
  /\ phase' = "stopped"
  /\ UNCHANGED <<sinkCall, failed, present>>

EventThreadExits ==
  /\ phase = "stopping"
  /\ sinkCall = "idle"
  /\ sinkCall' = "done"
  /\ UNCHANGED <<phase, failed, present>>

EndStop ==
  /\ phase = "stopping"
  /\ sinkCall = "done"
  /\ phase' = "stopped"
  /\ UNCHANGED <<sinkCall, failed, present>>

SessionNext ==
  \/ BeginStart \/ StartFails \/ EventThreadStarts \/ StartSucceeds
  \/ EnterSink \/ LeaveSink \/ Unplug \/ NoticeRemoval
  \/ BeginStop \/ StopBroken \/ EventThreadExits \/ EndStop

\* Removal of the device of a session that is up is noticed, and a stop() of a
\* session whose device is gone returns.
RemovalNoticed == (phase = "up" /\ ~present) ~> (failed \/ phase # "up")
StopReturns == (phase = "stopping" /\ ~present) ~> (phase = "stopped")

SessionSafety == SessionInit /\ [][SessionNext]_svars
SessionSpec == SessionSafety /\ RemovalNoticed /\ StopReturns
=============================================================================
