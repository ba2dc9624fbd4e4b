--------------------------- MODULE DongleManager ---------------------------
(***************************************************************************)
(* The supervisor of src/src/dongle_manager.cpp: it polls for the dongle,  *)
(* claims it, runs a session over it, watches for its removal, tears the   *)
(* session down and connects again, with exponential backoff and a reset   *)
(* of a device that cannot be claimed.  stop() is called by the            *)
(* application's main thread, send() by any of its threads; mu_ guards     *)
(* dongle_ and usb_ between the three.                                     *)
(*                                                                         *)
(* A session is a DongleSession, the specification that Dongle.tla is      *)
(* checked to implement; its variables are those of the one Dongle object  *)
(* that exists at a time, "stopped" when there is none.                    *)
(*                                                                         *)
(* Time is abstracted: a nap or a sleep is a state the thread may leave,   *)
(* and whether a session died within kFlapWindow is a free choice.         *)
(* Backoff is counted in units of 250 ms.                                  *)
(***************************************************************************)
EXTENDS Integers, FiniteSets

CONSTANTS
  Senders,       \* application threads that call send()
  BackoffMin,    \* kBackoffMin
  BackoffMax,    \* kBackoffMax
  ResetAfter,    \* kResetAfterClaimFails
  MaxPlugs       \* bound on how often the device is plugged in

Sup == "sup"
Main == "main"
Free == "free"

ASSUME ManagerConstantsOK ==
  /\ Senders \cap {Sup, Main, Free} = {}
  /\ BackoffMin \in Nat \ {0}
  /\ BackoffMax \in Nat /\ BackoffMin <= BackoffMax
  /\ ResetAfter \in Nat \ {0}
  /\ MaxPlugs \in Nat

VARIABLES
  phase, sinkCall, failed, present,  \* the current session (DongleSession)
  running,     \* running_
  connected,   \* connected_
  dongle,      \* dongle_ is not null
  mu,          \* the holder of mu_
  sup,         \* program counter of the supervisor thread
  main,        \* program counter of the thread that calls start() and stop()
  sender,      \* where each sender is inside send()
  backoff,     \* backoff
  claimFails,  \* claim_fails
  trouble,     \* history: "claim" when the last poll could not claim the dongle,
               \* "flap" when the session it made has flapped, or "none"
  lastNap,     \* history: the supervisor's last nap, 0 if it has polled without one
  device,      \* what is on the bus: "absent", "stuck" (open, no claim), "ok"
  plugs        \* how often the device has been plugged in

session == <<phase, sinkCall, failed, present>>
pacing == <<backoff, claimFails, trouble, lastNap>>
world == <<device, plugs>>
vars == <<session, running, connected, dongle, mu, sup, main, sender, pacing, world>>

S == INSTANCE DongleSession

SupPc == {"off", "top", "nap", "open", "claim", "start", "publish", "connected",
          "announce", "watch", "teardown", "stopping", "disconnected", "exited"}
MainPc == {"off", "running", "join", "lock", "stopping", "done"}

TypeOK ==
  /\ S!SessionTypeOK
  /\ running \in BOOLEAN /\ connected \in BOOLEAN /\ dongle \in BOOLEAN
  /\ mu \in {Free, Sup, Main} \cup Senders
  /\ sup \in SupPc
  /\ main \in MainPc
  /\ sender \in [Senders -> {"idle", "waiting", "sending"}]
  /\ backoff \in 0..BackoffMax
  /\ claimFails \in 0..(ResetAfter - 1)
  /\ trouble \in {"none", "claim", "flap"}
  /\ lastNap \in 0..BackoffMax
  /\ device \in {"absent", "stuck", "ok"}
  /\ plugs \in 0..MaxPlugs

Init ==
  /\ phase = "stopped" /\ sinkCall = "none"
  /\ failed = FALSE /\ present = FALSE
  /\ running = FALSE /\ connected = FALSE /\ dongle = FALSE
  /\ mu = Free
  /\ sup = "off" /\ main = "off"
  /\ sender = [s \in Senders |-> "idle"]
  /\ backoff = 0 /\ claimFails = 0
  /\ trouble = "none" /\ lastNap = 0
  /\ device = "absent" /\ plugs = 0

\* Mutants, here and below: each is a plausible mistake in the definition it is
\* named after.  The doubled backoff has no upper bound.
GrownBackoff_NoMax == IF backoff = 0 THEN BackoffMin ELSE 2 * backoff

GrownBackoff ==
  IF backoff = 0 THEN BackoffMin
  ELSE IF 2 * backoff < BackoffMax THEN 2 * backoff ELSE BackoffMax

\* claim_fails after one more failure, and its mutant: a counter that does not
\* outlive an iteration of the loop.
ClaimFailures_Local == 1
ClaimFailures == claimFails + 1

\* A session that the supervisor tears down, and its mutant.
SessionDead_Missing == ~dongle
SessionDead == ~dongle \/ failed

\* dongle_->stop() has returned, and its mutant: nobody waits for it.
SessionStopped_NoWait == phase \in {"stopping", "stopped"}
SessionStopped == phase = "stopped"

(***************************************************************************)
(* start() and stop(), by the main thread.                                 *)
(***************************************************************************)
ManagerStart ==
  /\ main = "off"
  /\ main' = "running"
  /\ running' = TRUE
  /\ sup' = "top"
  /\ UNCHANGED <<session, connected, dongle, mu, sender, pacing, world>>

ManagerStop ==
  /\ main = "running"
  /\ main' = "join"
  /\ running' = FALSE
  /\ UNCHANGED <<session, connected, dongle, mu, sup, sender, pacing, world>>

JoinSupervisor ==
  /\ main = "join"
  /\ sup = "exited"
  /\ main' = "lock"
  /\ UNCHANGED <<session, running, connected, dongle, mu, sup, sender, pacing,
                 world>>

\* Calls dongle_->stop(), which does nothing after a failed start.
CallSessionStop == S!BeginStop \/ S!StopBroken

LockForStop ==
  /\ main = "lock"
  /\ mu = Free
  /\ IF dongle
     THEN /\ CallSessionStop
          /\ mu' = Main
          /\ main' = "stopping"
          /\ UNCHANGED connected
     ELSE /\ main' = "done"
          /\ connected' = FALSE
          /\ UNCHANGED <<session, mu>>
  /\ UNCHANGED <<running, dongle, sup, sender, pacing, world>>

\* dongle_->stop() has returned: dongle_ and usb_ are destroyed.
FinishStop ==
  /\ main = "stopping"
  /\ SessionStopped
  /\ dongle' = FALSE
  /\ connected' = FALSE
  /\ mu' = Free
  /\ main' = "done"
  /\ UNCHANGED <<session, running, sup, sender, pacing, world>>

(***************************************************************************)
(* supervise(), disconnected: look for the dongle and connect to it.       *)
(***************************************************************************)
SupLoop ==
  /\ sup = "top"
  /\ sup' = CASE ~running                             -> "exited"
              [] running /\ connected                 -> "watch"
              [] running /\ ~connected /\ backoff > 0 -> "nap"
              [] running /\ ~connected /\ backoff = 0 -> "open"
  /\ lastNap' = IF sup' = "open" THEN 0 ELSE lastNap
  /\ UNCHANGED <<session, running, connected, dongle, mu, main, sender, backoff,
                 claimFails, trouble, world>>

SupNap ==
  /\ sup = "nap"
  /\ sup' = IF running THEN "open" ELSE "exited"
  /\ lastNap' = backoff
  /\ UNCHANGED <<session, running, connected, dongle, mu, main, sender, backoff,
                 claimFails, trouble, world>>

SupOpen ==
  /\ sup = "open"
  /\ IF device = "absent"
     THEN /\ backoff' = 0
          /\ claimFails' = 0
          /\ trouble' = "none"
          /\ sup' = "top"
     ELSE /\ sup' = "claim"
          /\ UNCHANGED <<backoff, claimFails, trouble>>
  /\ UNCHANGED <<session, running, connected, dongle, mu, main, sender, lastNap, world>>

\* The claim succeeds: a new Dongle over the device.
SupClaim ==
  /\ sup = "claim"
  /\ device = "ok"
  /\ phase' = "new" /\ sinkCall' = "none" /\ failed' = FALSE /\ present' = TRUE
  /\ sup' = "start"
  /\ trouble' = "none"
  /\ UNCHANGED <<running, connected, dongle, mu, main, sender, backoff, claimFails,
                 lastNap, world>>

\* The claim fails, and not for the last time before a reset.
SupClaimFails ==
  /\ sup = "claim"
  /\ device # "ok"
  /\ ClaimFailures < ResetAfter
  /\ claimFails' = ClaimFailures
  /\ backoff' = GrownBackoff
  /\ trouble' = "claim"
  /\ sup' = "top"
  /\ UNCHANGED <<session, running, connected, dongle, mu, main, sender, lastNap, world>>

\* Mutant: a reset is taken for a clean slate.
SupReset_CleanSlate(outcome) ==
  /\ sup = "claim"
  /\ device # "ok"
  /\ ClaimFailures >= ResetAfter
  /\ device' = IF device = "absent" THEN "absent" ELSE outcome
  /\ claimFails' = 0
  /\ backoff' = 0
  /\ trouble' = "claim"
  /\ sup' = "top"
  /\ UNCHANGED <<session, running, connected, dongle, mu, main, sender, lastNap, plugs>>

\* The claim has failed ResetAfter times: the device is reset, which may or may
\* not bring it back to life, or take it off the bus.
SupReset(outcome) ==
  /\ sup = "claim"
  /\ device # "ok"
  /\ ClaimFailures >= ResetAfter
  /\ device' = IF device = "absent" THEN "absent" ELSE outcome
  /\ claimFails' = 0
  /\ backoff' = GrownBackoff
  /\ trouble' = "claim"
  /\ sup' = "top"
  /\ UNCHANGED <<session, running, connected, dongle, mu, main, sender, lastNap, plugs>>

\* Inside d->start(), whose result is ignored.
SupStart ==
  /\ sup = "start"
  /\ \/ /\ S!BeginStart \/ S!EventThreadStarts
        /\ UNCHANGED sup
     \/ /\ S!StartSucceeds
        /\ sup' = "publish"
     \/ /\ S!StartFails
        /\ sup' = "publish"
  /\ UNCHANGED <<running, connected, dongle, mu, main, sender, pacing, world>>

SupPublish ==
  /\ sup = "publish"
  /\ mu = Free
  /\ dongle' = TRUE
  /\ sup' = "connected"
  /\ UNCHANGED <<session, running, connected, mu, main, sender, pacing, world>>

SupConnected ==
  /\ sup = "connected"
  /\ connected' = TRUE
  /\ claimFails' = 0
  /\ backoff' = 0
  /\ sup' = "announce"
  /\ UNCHANGED <<session, running, dongle, mu, main, sender, trouble, lastNap, world>>

\* on_connected_, in which carlinkit-kms sends the OEM icon through send().
SupAnnounce ==
  /\ sup = "announce"
  /\ mu = Free
  /\ sup' = "top"
  /\ UNCHANGED <<session, running, connected, dongle, mu, main, sender, pacing,
                 world>>

(***************************************************************************)
(* supervise(), connected: watch the session and tear it down.             *)
(***************************************************************************)
SupWatch ==
  /\ sup = "watch"
  /\ mu = Free
  /\ sup' = IF SessionDead THEN "teardown" ELSE "top"
  /\ UNCHANGED <<session, running, connected, dongle, mu, main, sender, pacing,
                 world>>

\* The session is torn down without mu_.
SupTeardown_NoLock ==
  /\ sup = "teardown"
  /\ IF dongle THEN S!BeginStop \/ S!StopBroken ELSE UNCHANGED session
  /\ sup' = "stopping"
  /\ UNCHANGED <<running, connected, dongle, mu, main, sender, pacing, world>>

SupTeardown ==
  /\ sup = "teardown"
  /\ mu = Free
  /\ IF dongle THEN CallSessionStop ELSE UNCHANGED session
  /\ mu' = Sup
  /\ sup' = "stopping"
  /\ UNCHANGED <<running, connected, dongle, main, sender, pacing, world>>

SupDestroy ==
  /\ sup = "stopping"
  /\ SessionStopped
  /\ dongle' = FALSE
  /\ mu' = Free
  /\ sup' = "disconnected"
  /\ UNCHANGED <<session, running, connected, main, sender, pacing, world>>

\* connected_ is not cleared after a flap.
SupDisconnected_Stale(flap) ==
  /\ sup = "disconnected"
  /\ connected' = flap
  /\ backoff' = IF flap THEN BackoffMin ELSE 0
  /\ trouble' = IF flap THEN "flap" ELSE "none"
  /\ sup' = "top"
  /\ UNCHANGED <<session, running, dongle, mu, main, sender, claimFails, lastNap,
                 world>>

SupDisconnected(flap) ==
  /\ sup = "disconnected"
  /\ connected' = FALSE
  /\ backoff' = IF flap THEN GrownBackoff ELSE 0
  /\ trouble' = IF flap THEN "flap" ELSE "none"
  /\ sup' = "top"
  /\ UNCHANGED <<session, running, dongle, mu, main, sender, claimFails, lastNap,
                 world>>

(***************************************************************************)
(* send(), by the application's threads.                                   *)
(***************************************************************************)
SendCall(s) ==
  /\ sender[s] = "idle"
  /\ sender' = [sender EXCEPT ![s] = "waiting"]
  /\ UNCHANGED <<session, running, connected, dongle, mu, sup, main, pacing,
                 world>>

SendLock(s) ==
  /\ sender[s] = "waiting"
  /\ mu = Free
  /\ mu' = s
  /\ sender' = [sender EXCEPT ![s] = "sending"]
  /\ UNCHANGED <<session, running, connected, dongle, sup, main, pacing,
                 world>>

\* dongle_->send() notices a removed device; without a dongle_, send() is false.
SendReturn(s) ==
  /\ sender[s] = "sending"
  /\ \/ dongle /\ S!NoticeRemoval
     \/ UNCHANGED session
  /\ mu' = Free
  /\ sender' = [sender EXCEPT ![s] = "idle"]
  /\ UNCHANGED <<running, connected, dongle, sup, main, pacing, world>>

(***************************************************************************)
(* The session's own threads, and the bus.                                 *)
(***************************************************************************)
manager == <<running, connected, dongle, mu, sup, main, sender, pacing, world>>

NoticeRemoval == S!NoticeRemoval /\ UNCHANGED manager
EventThreadExits == S!EventThreadExits /\ UNCHANGED manager
EndStop == S!EndStop /\ UNCHANGED manager
EnterSink == S!EnterSink /\ UNCHANGED manager
LeaveSink == S!LeaveSink /\ UNCHANGED manager

Plug(kind) ==
  /\ device = "absent"
  /\ plugs < MaxPlugs
  /\ device' = kind
  /\ plugs' = plugs + 1
  /\ UNCHANGED <<session, running, connected, dongle, mu, sup, main, sender,
                 pacing>>

\* The device goes, from under a session if there is one over it.
Unplug ==
  /\ device # "absent"
  /\ device' = "absent"
  /\ \/ S!Unplug
     \/ ~present /\ UNCHANGED session
  /\ UNCHANGED <<running, connected, dongle, mu, sup, main, sender, pacing,
                 plugs>>

MainStep == JoinSupervisor \/ LockForStop \/ FinishStop
SupStep ==
  \/ SupLoop \/ SupNap \/ SupOpen \/ SupClaim \/ SupClaimFails
  \/ \E outcome \in {"absent", "stuck", "ok"} : SupReset(outcome)
  \/ SupStart \/ SupPublish \/ SupConnected \/ SupAnnounce
  \/ SupWatch \/ SupTeardown \/ SupDestroy
  \/ \E flap \in BOOLEAN : SupDisconnected(flap)
SendStep(s) == SendCall(s) \/ SendLock(s) \/ SendReturn(s)
BusStep == Unplug \/ \E kind \in {"stuck", "ok"} : Plug(kind)

Next ==
  \/ ManagerStart \/ ManagerStop \/ MainStep \/ SupStep
  \/ \E s \in Senders : SendStep(s)
  \/ NoticeRemoval \/ EventThreadExits \/ EndStop \/ EnterSink \/ LeaveSink
  \/ BusStep
  \/ (main = "done" /\ UNCHANGED vars)

(***************************************************************************)
(* The application calls start().  Every thread of the program runs, and   *)
(* takes mu_ when it keeps becoming free (strong fairness: a std::mutex    *)
(* starves nobody for ever).  Of the session only what DongleSession       *)
(* promises is assumed: a removal is noticed, and a stop() of a session    *)
(* whose device has gone returns once the sink has.  A reset that is tried *)
(* again and again works in the end.                                       *)
(***************************************************************************)
ManagerFairness ==
  /\ WF_vars(ManagerStart)
  /\ SF_vars(MainStep) /\ SF_vars(SupStep)
  /\ \A s \in Senders : SF_vars(SendLock(s)) /\ WF_vars(SendReturn(s))
  /\ WF_vars(phase = "up" /\ ~failed /\ NoticeRemoval)
  /\ SF_vars(~present /\ EventThreadExits)
  /\ WF_vars(EndStop)
  /\ SF_vars(SupReset("ok"))

Spec == Init /\ [][Next]_vars
FairSpec == Spec /\ ManagerFairness /\ WF_vars(LeaveSink)

(***************************************************************************)
(* Properties.                                                             *)
(***************************************************************************)
\* A send reaches a session only between the end of its start() and its
\* stop(): mu_ keeps it off a Dongle that is being built, stopped or destroyed.
SendsReachLiveSession ==
  \A s \in Senders :
    sender[s] = "sending" => mu = s /\ (dongle => phase \in {"up", "broken"})

\* A new session is made only when the last one is gone: none is leaked with
\* its threads still calling the sink.
OneSessionAtATime ==
  [][phase' = "new" /\ phase # "new" =>
       phase = "stopped" /\ ~dongle /\ sinkCall \in {"none", "done"}]_vars

\* Once stop() has returned nothing calls the application's sink any more, and
\* nothing will: the application destroys what the sink captured.
NoSinkAfterStop ==
  main = "done" => ~dongle /\ ~connected /\ sinkCall \in {"none", "done"}

\* connected() says a session exists, apart from the moments in which the
\* supervisor or stop() is replacing it.
ConnectedMeansSession ==
  connected => dongle \/ sup = "disconnected"

\* "back off exponentially when it is present yet failing": after a claim that
\* failed, reset or not, or a session that flapped, the supervisor naps before it
\* opens the device again, and while claims fail each nap is at least twice the
\* one before, up to kBackoffMax.
PacedWhileFailing ==
  [][trouble # "none" /\ sup # "open" /\ sup' = "open" =>
       /\ lastNap' >= BackoffMin
       /\ trouble = "claim" => lastNap' >= 2 * lastNap \/ lastNap' = BackoffMax]_vars

\* A session whose start() failed is replaced: no session stays broken.
BrokenSessionReplaced ==
  (phase = "broken" /\ main = "running") ~> (phase # "broken" \/ main # "running")
=============================================================================
