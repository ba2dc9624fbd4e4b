-------------------------- MODULE MicSessionProofs --------------------------
(***************************************************************************)
(* Proofs about the supervisor, with any senders, pacing and number of     *)
(* plugs, and about the microphone on top of it.                           *)
(***************************************************************************)
EXTENDS MicSession, TLAPS

\* The names of groups of variables and of mutable conditions, expanded
\* everywhere.
USE DEF pacing, world, session, manager, ClaimFailures, SessionDead, SessionStopped

(***************************************************************************)
(* The supervisor.                                                         *)
(***************************************************************************)
\* Where the session is, while the supervisor or stop() is where it is.
SessionInv ==
  /\ sup = "start" => phase \in {"new", "starting"}
  /\ sup = "publish" => phase \in {"up", "broken"}
  /\ dongle /\ sup # "stopping" /\ main # "stopping" => phase \in {"up", "broken"}
  /\ sup = "stopping" \/ main = "stopping" => phase \in {"stopping", "stopped"}
  /\ ~dongle /\ sup \notin {"start", "publish"} => phase = "stopped"

\* Where its event thread is.
EventInv ==
  /\ phase \in {"new", "broken"} => sinkCall = "none"
  /\ phase = "starting" => sinkCall # "done"
  /\ phase = "up" => sinkCall \in {"idle", "busy"}
  /\ phase = "stopping" => sinkCall # "none"
  /\ phase = "stopped" => sinkCall \in {"none", "done"}

\* When the supervisor has published a session, and knows that it has.
OwnerInv ==
  /\ sup \in {"off", "nap", "open", "claim", "start", "publish", "disconnected"} => ~dongle
  /\ sup \in {"connected", "announce", "watch", "teardown", "stopping"} => dongle
  /\ sup \in {"off", "nap", "open", "claim", "start", "publish", "connected"} => ~connected
  /\ sup \in {"announce", "watch", "teardown", "stopping"} => connected
  /\ sup \in {"top", "exited"} => (connected <=> dongle)
  /\ main \in {"lock", "stopping", "done"} => sup = "exited"
  /\ main = "stopping" => dongle
  /\ main = "done" => ~dongle
  /\ sup = "off" <=> main = "off"

\* Who holds mu_.
LockInv ==
  /\ mu = Sup <=> sup = "stopping"
  /\ mu = Main <=> main = "stopping"
  /\ \A s \in Senders : mu = s <=> sender[s] = "sending"

\* The backoff is 0 or counts; trouble has set it, and a claim that failed has
\* doubled it since the nap before.
PaceInv ==
  /\ backoff = 0 \/ backoff >= BackoffMin
  /\ trouble # "none" => backoff >= BackoffMin
  /\ sup \in {"off", "start", "publish", "connected", "announce", "watch", "teardown", "stopping",
              "disconnected"} => trouble = "none"
  /\ connected => trouble = "none"
  /\ sup \in {"open", "claim"} => lastNap = backoff
  /\ trouble = "claim" /\ sup \in {"top", "nap"} =>
       backoff >= 2 * lastNap \/ backoff = BackoffMax

IInv == TypeOK /\ SessionInv /\ EventInv /\ OwnerInv /\ LockInv /\ PaceInv

\* The Boolean variables and the others, which different provers handle.
FlagsOK ==
  /\ running \in BOOLEAN /\ connected \in BOOLEAN /\ dongle \in BOOLEAN
  /\ failed \in BOOLEAN /\ present \in BOOLEAN
StateOK ==
  /\ phase \in S!Phases
  /\ sinkCall \in {"none", "idle", "busy", "done"}
  /\ mu \in {Free, Sup, Main} \cup Senders
  /\ sup \in SupPc
  /\ main \in MainPc
  /\ sender \in [Senders -> {"idle", "waiting", "sending"}]
  /\ backoff \in 0..BackoffMax
  /\ claimFails \in 0..(ResetAfter - 1)
  /\ trouble \in {"none", "claim", "flap"}
  /\ lastNap \in 0..BackoffMax
  /\ device \in {"absent", "stuck", "ok"}
  /\ plugs \in 0..MaxPlugs

LEMMA TypeParts == TypeOK <=> FlagsOK /\ StateOK
  BY DEF TypeOK, S!SessionTypeOK, FlagsOK, StateOK

\* supervise() at the top of its loop.
LEMMA SupLoopTurns ==
  ASSUME IInv, SupLoop
  PROVE  /\ sup = "top"
         /\ \/ sup' = "exited"
            \/ sup' = "watch" /\ connected
            \/ sup' = "nap" /\ ~connected
            \/ sup' = "open" /\ ~connected /\ backoff = 0
         /\ lastNap' = IF sup' = "open" THEN 0 ELSE lastNap
         /\ UNCHANGED <<session, running, connected, dongle, mu, main, sender, backoff,
                        claimFails, trouble, world>>
<1>1. backoff > 0 \/ backoff = 0
  BY ManagerConstantsOK, TypeParts DEF IInv, StateOK
<1>2. CASE ~running
  BY <1>2 DEF SupLoop
<1>3. CASE running /\ connected
  BY <1>3 DEF SupLoop
<1>4. CASE running /\ ~connected
  BY <1>1, <1>4 DEF SupLoop
<1> QED
  BY <1>2, <1>3, <1>4

LEMMA FlagsStep == FlagsOK /\ [Next]_vars => FlagsOK'
<1> SUFFICES ASSUME FlagsOK, [Next]_vars PROVE FlagsOK'
  OBVIOUS
<1> USE DEF IInv, FlagsOK
<1>1. CASE ManagerStart \/ ManagerStop \/ JoinSupervisor
  BY <1>1 DEF ManagerStart, ManagerStop, JoinSupervisor
<1>2. CASE LockForStop
  BY <1>2 DEF LockForStop, CallSessionStop, S!BeginStop, S!StopBroken
<1>3. CASE FinishStop
  BY <1>3 DEF FinishStop
<1>4. CASE SupLoop
  BY <1>4 DEF SupLoop
<1>5. CASE SupNap \/ SupOpen
  BY <1>5 DEF SupNap, SupOpen
<1>6. CASE SupClaim
  BY <1>6 DEF SupClaim
<1>7. CASE SupClaimFails
  BY <1>7 DEF SupClaimFails, GrownBackoff
<1>8. ASSUME NEW outcome \in {"absent", "stuck", "ok"}, SupReset(outcome) PROVE FlagsOK'
  BY <1>8 DEF SupReset, GrownBackoff
<1>9. CASE SupStart
  BY <1>9 DEF SupStart, S!BeginStart, S!EventThreadStarts, S!StartSucceeds, S!StartFails
<1>10. CASE SupPublish \/ SupConnected \/ SupAnnounce
  BY <1>10 DEF SupPublish, SupConnected, SupAnnounce
<1>11. CASE SupWatch \/ SupDestroy
  BY <1>11 DEF SupWatch, SupDestroy
<1>12. CASE SupTeardown
  BY <1>12 DEF SupTeardown, CallSessionStop, S!BeginStop, S!StopBroken
<1>13. ASSUME NEW flap \in BOOLEAN, SupDisconnected(flap) PROVE FlagsOK'
  BY <1>13 DEF SupDisconnected, GrownBackoff
<1>14. ASSUME NEW s \in Senders, SendStep(s) PROVE FlagsOK'
  BY <1>14 DEF SendStep, SendCall, SendLock, SendReturn, S!NoticeRemoval
<1>15. CASE NoticeRemoval \/ EventThreadExits \/ EndStop \/ EnterSink \/ LeaveSink
  BY <1>15 DEF NoticeRemoval, EventThreadExits, EndStop, EnterSink, LeaveSink, S!NoticeRemoval,
              S!EventThreadExits, S!EndStop, S!EnterSink, S!LeaveSink
<1>16. CASE BusStep
  BY <1>16 DEF BusStep, Plug, Unplug, S!Unplug
<1>17. CASE UNCHANGED vars
  BY <1>17 DEF vars
<1> QED
  BY <1>1, <1>2, <1>3, <1>4, <1>5, <1>6, <1>7, <1>8, <1>9, <1>10, <1>11, <1>12, <1>13, <1>14, <1>15, <1>16, <1>17 DEF Next, MainStep, SupStep

LEMMA StateStep == IInv /\ [Next]_vars => StateOK'
<1> SUFFICES ASSUME IInv, [Next]_vars PROVE StateOK'
  OBVIOUS
<1> USE ManagerConstantsOK, TypeParts DEF IInv, StateOK, SupPc, MainPc, S!Phases
<1>1. CASE ManagerStart \/ ManagerStop \/ JoinSupervisor
  BY <1>1 DEF ManagerStart, ManagerStop, JoinSupervisor
<1>2. CASE LockForStop
  BY <1>2 DEF LockForStop, CallSessionStop, S!BeginStop, S!StopBroken
<1>3. CASE FinishStop
  BY <1>3 DEF FinishStop
<1>4. CASE SupLoop
  BY <1>4, SupLoopTurns
<1>5. CASE SupNap \/ SupOpen
  BY <1>5 DEF SupNap, SupOpen
<1>6. CASE SupClaim
  BY <1>6 DEF SupClaim
<1>7. CASE SupClaimFails
  BY <1>7 DEF SupClaimFails, GrownBackoff
<1>8. ASSUME NEW outcome \in {"absent", "stuck", "ok"}, SupReset(outcome) PROVE StateOK'
  BY <1>8 DEF SupReset, GrownBackoff
<1>9. CASE SupStart
  BY <1>9 DEF SupStart, S!BeginStart, S!EventThreadStarts, S!StartSucceeds, S!StartFails
<1>10. CASE SupPublish \/ SupConnected \/ SupAnnounce
  BY <1>10 DEF SupPublish, SupConnected, SupAnnounce
<1>11. CASE SupWatch \/ SupDestroy
  BY <1>11 DEF SupWatch, SupDestroy
<1>12. CASE SupTeardown
  BY <1>12 DEF SupTeardown, CallSessionStop, S!BeginStop, S!StopBroken
<1>13. ASSUME NEW flap \in BOOLEAN, SupDisconnected(flap) PROVE StateOK'
  BY <1>13 DEF SupDisconnected, GrownBackoff
<1>14. ASSUME NEW s \in Senders, SendStep(s) PROVE StateOK'
  BY <1>14 DEF SendStep, SendCall, SendLock, SendReturn, S!NoticeRemoval
<1>15. CASE NoticeRemoval \/ EventThreadExits \/ EndStop \/ EnterSink \/ LeaveSink
  BY <1>15 DEF NoticeRemoval, EventThreadExits, EndStop, EnterSink, LeaveSink, S!NoticeRemoval,
              S!EventThreadExits, S!EndStop, S!EnterSink, S!LeaveSink
<1>16. CASE BusStep
  BY <1>16 DEF BusStep, Plug, Unplug, S!Unplug
<1>17. CASE UNCHANGED vars
  BY <1>17 DEF vars
<1> QED
  BY <1>1, <1>2, <1>3, <1>4, <1>5, <1>6, <1>7, <1>8, <1>9, <1>10, <1>11, <1>12, <1>13, <1>14, <1>15, <1>16, <1>17 DEF Next, MainStep, SupStep

LEMMA SessionStep == IInv /\ [Next]_vars => SessionInv'
<1> SUFFICES ASSUME IInv, [Next]_vars PROVE SessionInv'
  OBVIOUS
<1> USE DEF IInv, SessionInv, OwnerInv, LockInv
<1>1. CASE ManagerStart \/ ManagerStop \/ JoinSupervisor
  BY <1>1 DEF ManagerStart, ManagerStop, JoinSupervisor
<1>2. CASE LockForStop
  BY <1>2 DEF LockForStop, CallSessionStop, S!BeginStop, S!StopBroken
<1>3. CASE FinishStop
  BY <1>3 DEF FinishStop
<1>4. CASE SupLoop
  BY <1>4, SupLoopTurns
<1>5. CASE SupNap \/ SupOpen
  BY <1>5 DEF SupNap, SupOpen
<1>6. CASE SupClaim
  BY <1>6 DEF SupClaim
<1>7. CASE SupClaimFails
  BY <1>7 DEF SupClaimFails, GrownBackoff
<1>8. ASSUME NEW outcome \in {"absent", "stuck", "ok"}, SupReset(outcome) PROVE SessionInv'
  BY <1>8 DEF SupReset, GrownBackoff
<1>9. CASE SupStart
  BY <1>9 DEF SupStart, S!BeginStart, S!EventThreadStarts, S!StartSucceeds, S!StartFails
<1>10. CASE SupPublish \/ SupConnected \/ SupAnnounce
  BY <1>10 DEF SupPublish, SupConnected, SupAnnounce
<1>11. CASE SupWatch \/ SupDestroy
  BY <1>11 DEF SupWatch, SupDestroy
<1>12. CASE SupTeardown
  BY <1>12 DEF SupTeardown, CallSessionStop, S!BeginStop, S!StopBroken
<1>13. ASSUME NEW flap \in BOOLEAN, SupDisconnected(flap) PROVE SessionInv'
  BY <1>13 DEF SupDisconnected, GrownBackoff
<1>14. ASSUME NEW s \in Senders, SendStep(s) PROVE SessionInv'
  BY <1>14 DEF SendStep, SendCall, SendLock, SendReturn, S!NoticeRemoval
<1>15. CASE NoticeRemoval \/ EventThreadExits \/ EndStop \/ EnterSink \/ LeaveSink
  BY <1>15 DEF NoticeRemoval, EventThreadExits, EndStop, EnterSink, LeaveSink, S!NoticeRemoval,
              S!EventThreadExits, S!EndStop, S!EnterSink, S!LeaveSink
<1>16. CASE BusStep
  BY <1>16 DEF BusStep, Plug, Unplug, S!Unplug
<1>17. CASE UNCHANGED vars
  BY <1>17 DEF vars
<1> QED
  BY <1>1, <1>2, <1>3, <1>4, <1>5, <1>6, <1>7, <1>8, <1>9, <1>10, <1>11, <1>12, <1>13, <1>14, <1>15, <1>16, <1>17 DEF Next, MainStep, SupStep

LEMMA EventStep == IInv /\ [Next]_vars => EventInv'
<1> SUFFICES ASSUME IInv, [Next]_vars PROVE EventInv'
  OBVIOUS
<1> USE TypeParts DEF IInv, EventInv, SessionInv, OwnerInv, StateOK, S!Phases
<1>1. CASE ManagerStart \/ ManagerStop \/ JoinSupervisor
  BY <1>1 DEF ManagerStart, ManagerStop, JoinSupervisor
<1>2. CASE LockForStop
  BY <1>2 DEF LockForStop, CallSessionStop, S!BeginStop, S!StopBroken
<1>3. CASE FinishStop
  BY <1>3 DEF FinishStop
<1>4. CASE SupLoop
  BY <1>4, SupLoopTurns
<1>5. CASE SupNap \/ SupOpen
  BY <1>5 DEF SupNap, SupOpen
<1>6. CASE SupClaim
  BY <1>6 DEF SupClaim
<1>7. CASE SupClaimFails
  BY <1>7 DEF SupClaimFails, GrownBackoff
<1>8. ASSUME NEW outcome \in {"absent", "stuck", "ok"}, SupReset(outcome) PROVE EventInv'
  BY <1>8 DEF SupReset, GrownBackoff
<1>9. CASE SupStart
  BY <1>9 DEF SupStart, S!BeginStart, S!EventThreadStarts, S!StartSucceeds, S!StartFails
<1>10. CASE SupPublish \/ SupConnected \/ SupAnnounce
  BY <1>10 DEF SupPublish, SupConnected, SupAnnounce
<1>11. CASE SupWatch \/ SupDestroy
  BY <1>11 DEF SupWatch, SupDestroy
<1>12. CASE SupTeardown
  BY <1>12 DEF SupTeardown, CallSessionStop, S!BeginStop, S!StopBroken
<1>13. ASSUME NEW flap \in BOOLEAN, SupDisconnected(flap) PROVE EventInv'
  BY <1>13 DEF SupDisconnected, GrownBackoff
<1>14. ASSUME NEW s \in Senders, SendStep(s) PROVE EventInv'
  BY <1>14 DEF SendStep, SendCall, SendLock, SendReturn, S!NoticeRemoval
<1>15. CASE NoticeRemoval \/ EventThreadExits \/ EndStop \/ EnterSink \/ LeaveSink
  BY <1>15 DEF NoticeRemoval, EventThreadExits, EndStop, EnterSink, LeaveSink, S!NoticeRemoval,
              S!EventThreadExits, S!EndStop, S!EnterSink, S!LeaveSink
<1>16. CASE BusStep
  BY <1>16 DEF BusStep, Plug, Unplug, S!Unplug
<1>17. CASE UNCHANGED vars
  BY <1>17 DEF vars
<1> QED
  BY <1>1, <1>2, <1>3, <1>4, <1>5, <1>6, <1>7, <1>8, <1>9, <1>10, <1>11, <1>12, <1>13, <1>14, <1>15, <1>16, <1>17 DEF Next, MainStep, SupStep

LEMMA OwnerStep == IInv /\ [Next]_vars => OwnerInv'
<1> SUFFICES ASSUME IInv, [Next]_vars PROVE OwnerInv'
  OBVIOUS
<1> USE DEF IInv, OwnerInv
<1>1. CASE ManagerStart \/ ManagerStop \/ JoinSupervisor
  BY <1>1 DEF ManagerStart, ManagerStop, JoinSupervisor
<1>2. CASE LockForStop
  BY <1>2 DEF LockForStop, CallSessionStop, S!BeginStop, S!StopBroken
<1>3. CASE FinishStop
  BY <1>3 DEF FinishStop
<1>4. CASE SupLoop
  BY <1>4, SupLoopTurns
<1>5. CASE SupNap \/ SupOpen
  BY <1>5 DEF SupNap, SupOpen
<1>6. CASE SupClaim
  BY <1>6 DEF SupClaim
<1>7. CASE SupClaimFails
  BY <1>7 DEF SupClaimFails, GrownBackoff
<1>8. ASSUME NEW outcome \in {"absent", "stuck", "ok"}, SupReset(outcome) PROVE OwnerInv'
  BY <1>8 DEF SupReset, GrownBackoff
<1>9. CASE SupStart
  BY <1>9 DEF SupStart, S!BeginStart, S!EventThreadStarts, S!StartSucceeds, S!StartFails
<1>10. CASE SupPublish \/ SupConnected \/ SupAnnounce
  BY <1>10 DEF SupPublish, SupConnected, SupAnnounce
<1>11. CASE SupWatch \/ SupDestroy
  BY <1>11 DEF SupWatch, SupDestroy
<1>12. CASE SupTeardown
  BY <1>12 DEF SupTeardown, CallSessionStop, S!BeginStop, S!StopBroken
<1>13. ASSUME NEW flap \in BOOLEAN, SupDisconnected(flap) PROVE OwnerInv'
  BY <1>13 DEF SupDisconnected, GrownBackoff
<1>14. ASSUME NEW s \in Senders, SendStep(s) PROVE OwnerInv'
  BY <1>14 DEF SendStep, SendCall, SendLock, SendReturn, S!NoticeRemoval
<1>15. CASE NoticeRemoval \/ EventThreadExits \/ EndStop \/ EnterSink \/ LeaveSink
  BY <1>15 DEF NoticeRemoval, EventThreadExits, EndStop, EnterSink, LeaveSink, S!NoticeRemoval,
              S!EventThreadExits, S!EndStop, S!EnterSink, S!LeaveSink
<1>16. CASE BusStep
  BY <1>16 DEF BusStep, Plug, Unplug, S!Unplug
<1>17. CASE UNCHANGED vars
  BY <1>17 DEF vars
<1> QED
  BY <1>1, <1>2, <1>3, <1>4, <1>5, <1>6, <1>7, <1>8, <1>9, <1>10, <1>11, <1>12, <1>13, <1>14, <1>15, <1>16, <1>17 DEF Next, MainStep, SupStep

LEMMA LockStep == IInv /\ [Next]_vars => LockInv'
<1> SUFFICES ASSUME IInv, [Next]_vars PROVE LockInv'
  OBVIOUS
<1> USE ManagerConstantsOK, TypeParts DEF IInv, LockInv, OwnerInv, StateOK, Sup, Main, Free
<1>1. CASE ManagerStart \/ ManagerStop \/ JoinSupervisor
  BY <1>1 DEF ManagerStart, ManagerStop, JoinSupervisor
<1>2. CASE LockForStop
  BY <1>2 DEF LockForStop, CallSessionStop, S!BeginStop, S!StopBroken
<1>3. CASE FinishStop
  BY <1>3 DEF FinishStop
<1>4. CASE SupLoop
  BY <1>4, SupLoopTurns
<1>5. CASE SupNap \/ SupOpen
  BY <1>5 DEF SupNap, SupOpen
<1>6. CASE SupClaim
  BY <1>6 DEF SupClaim
<1>7. CASE SupClaimFails
  BY <1>7 DEF SupClaimFails, GrownBackoff
<1>8. ASSUME NEW outcome \in {"absent", "stuck", "ok"}, SupReset(outcome) PROVE LockInv'
  BY <1>8 DEF SupReset, GrownBackoff
<1>9. CASE SupStart
  BY <1>9 DEF SupStart, S!BeginStart, S!EventThreadStarts, S!StartSucceeds, S!StartFails
<1>10. CASE SupPublish \/ SupConnected \/ SupAnnounce
  BY <1>10 DEF SupPublish, SupConnected, SupAnnounce
<1>11. CASE SupWatch \/ SupDestroy
  BY <1>11 DEF SupWatch, SupDestroy
<1>12. CASE SupTeardown
  BY <1>12 DEF SupTeardown, CallSessionStop, S!BeginStop, S!StopBroken
<1>13. ASSUME NEW flap \in BOOLEAN, SupDisconnected(flap) PROVE LockInv'
  BY <1>13 DEF SupDisconnected, GrownBackoff
<1>14. ASSUME NEW s \in Senders, SendStep(s) PROVE LockInv'
  BY <1>14 DEF SendStep, SendCall, SendLock, SendReturn, S!NoticeRemoval
<1>15. CASE NoticeRemoval \/ EventThreadExits \/ EndStop \/ EnterSink \/ LeaveSink
  BY <1>15 DEF NoticeRemoval, EventThreadExits, EndStop, EnterSink, LeaveSink, S!NoticeRemoval,
              S!EventThreadExits, S!EndStop, S!EnterSink, S!LeaveSink
<1>16. CASE BusStep
  BY <1>16 DEF BusStep, Plug, Unplug, S!Unplug
<1>17. CASE UNCHANGED vars
  BY <1>17 DEF vars
<1> QED
  BY <1>1, <1>2, <1>3, <1>4, <1>5, <1>6, <1>7, <1>8, <1>9, <1>10, <1>11, <1>12, <1>13, <1>14, <1>15, <1>16, <1>17 DEF Next, MainStep, SupStep

LEMMA PaceStep == IInv /\ [Next]_vars => PaceInv'
<1> SUFFICES ASSUME IInv, [Next]_vars PROVE PaceInv'
  OBVIOUS
<1> USE ManagerConstantsOK, TypeParts DEF IInv, PaceInv, OwnerInv, StateOK
<1>1. CASE ManagerStart \/ ManagerStop \/ JoinSupervisor
  BY <1>1 DEF ManagerStart, ManagerStop, JoinSupervisor
<1>2. CASE LockForStop
  BY <1>2 DEF LockForStop, CallSessionStop, S!BeginStop, S!StopBroken
<1>3. CASE FinishStop
  BY <1>3 DEF FinishStop
<1>4. CASE SupLoop
  BY <1>4, SupLoopTurns
<1>5. CASE SupNap \/ SupOpen
  BY <1>5 DEF SupNap, SupOpen
<1>6. CASE SupClaim
  BY <1>6 DEF SupClaim
<1>7. CASE SupClaimFails
  BY <1>7 DEF SupClaimFails, GrownBackoff
<1>8. ASSUME NEW outcome \in {"absent", "stuck", "ok"}, SupReset(outcome) PROVE PaceInv'
  BY <1>8 DEF SupReset, GrownBackoff
<1>9. CASE SupStart
  BY <1>9 DEF SupStart, S!BeginStart, S!EventThreadStarts, S!StartSucceeds, S!StartFails
<1>10. CASE SupPublish \/ SupConnected \/ SupAnnounce
  BY <1>10 DEF SupPublish, SupConnected, SupAnnounce
<1>11. CASE SupWatch \/ SupDestroy
  BY <1>11 DEF SupWatch, SupDestroy
<1>12. CASE SupTeardown
  BY <1>12 DEF SupTeardown, CallSessionStop, S!BeginStop, S!StopBroken
<1>13. ASSUME NEW flap \in BOOLEAN, SupDisconnected(flap) PROVE PaceInv'
  BY <1>13 DEF SupDisconnected, GrownBackoff
<1>14. ASSUME NEW s \in Senders, SendStep(s) PROVE PaceInv'
  BY <1>14 DEF SendStep, SendCall, SendLock, SendReturn, S!NoticeRemoval
<1>15. CASE NoticeRemoval \/ EventThreadExits \/ EndStop \/ EnterSink \/ LeaveSink
  BY <1>15 DEF NoticeRemoval, EventThreadExits, EndStop, EnterSink, LeaveSink, S!NoticeRemoval,
              S!EventThreadExits, S!EndStop, S!EnterSink, S!LeaveSink
<1>16. CASE BusStep
  BY <1>16 DEF BusStep, Plug, Unplug, S!Unplug
<1>17. CASE UNCHANGED vars
  BY <1>17 DEF vars
<1> QED
  BY <1>1, <1>2, <1>3, <1>4, <1>5, <1>6, <1>7, <1>8, <1>9, <1>10, <1>11, <1>12, <1>13, <1>14, <1>15, <1>16, <1>17 DEF Next, MainStep, SupStep

LEMMA IInvInit == Init => IInv
<1> SUFFICES ASSUME Init PROVE IInv
  OBVIOUS
<1> USE ManagerConstantsOK DEF Init
<1>1. FlagsOK
  BY DEF FlagsOK
<1>2. StateOK
  BY DEF StateOK, SupPc, MainPc, S!Phases
<1>3. SessionInv /\ EventInv /\ OwnerInv
  BY DEF SessionInv, EventInv, OwnerInv
<1>4. LockInv /\ PaceInv
  BY DEF LockInv, PaceInv, Sup, Main, Free
<1> QED
  BY <1>1, <1>2, <1>3, <1>4, TypeParts DEF IInv

LEMMA IInvStep == IInv /\ [Next]_vars => IInv'
<1> SUFFICES ASSUME IInv, [Next]_vars PROVE IInv'
  OBVIOUS
<1>1. FlagsOK' /\ StateOK'
  BY FlagsStep, StateStep, TypeParts DEF IInv
<1>2. TypeOK'
  BY <1>1 DEF TypeOK, S!SessionTypeOK, FlagsOK, StateOK
<1> QED
  BY <1>2, SessionStep, EventStep, OwnerStep, LockStep, PaceStep DEF IInv

LEMMA Promises ==
  IInv => SendsReachLiveSession /\ NoSinkAfterStop /\ ConnectedMeansSession
<1> SUFFICES ASSUME IInv
             PROVE  SendsReachLiveSession /\ NoSinkAfterStop /\ ConnectedMeansSession
  OBVIOUS
<1>1. SendsReachLiveSession
  BY ManagerConstantsOK DEF IInv, SendsReachLiveSession, LockInv, SessionInv, Sup, Main, Free
<1>2. NoSinkAfterStop
  BY DEF IInv, NoSinkAfterStop, OwnerInv, SessionInv, EventInv
<1>3. ConnectedMeansSession
  BY TypeParts DEF IInv, ConnectedMeansSession, OwnerInv, StateOK, SupPc
<1> QED
  BY <1>1, <1>2, <1>3

\* Only the two steps at the top of the loop begin a poll, and one without a nap
\* is for a backoff of 0.
LEMMA PollBegins ==
  ASSUME IInv, [Next]_vars, sup # "open", sup' = "open"
  PROVE  lastNap' = backoff /\ sup \in {"top", "nap"}
<1>1. CASE SupLoop
  BY <1>1, SupLoopTurns
<1>2. CASE SupNap
  BY <1>2 DEF SupNap
<1>3. CASE ManagerStart \/ ManagerStop \/ MainStep
  BY <1>3 DEF ManagerStart, ManagerStop, MainStep, JoinSupervisor, LockForStop, FinishStop
<1>4. CASE SupStep
  BY <1>1, <1>2, <1>4 DEF SupStep, SupOpen, SupClaim, SupClaimFails, SupReset, SupStart, SupPublish,
              SupConnected, SupAnnounce, SupWatch, SupTeardown, SupDestroy, SupDisconnected
<1>5. CASE \E s \in Senders : SendStep(s)
  BY <1>5 DEF SendStep, SendCall, SendLock, SendReturn
<1>6. CASE NoticeRemoval \/ EventThreadExits \/ EndStop \/ EnterSink \/ LeaveSink \/ BusStep
  BY <1>6 DEF NoticeRemoval, EventThreadExits, EndStop, EnterSink, LeaveSink, BusStep, Plug, Unplug
<1> QED
  BY <1>3, <1>4, <1>5, <1>6 DEF Next, vars

\* Only a claim makes a session, when the last one has been destroyed.
LEMMA NewSession ==
  ASSUME IInv, [Next]_vars, phase' = "new", phase # "new"
  PROVE  phase = "stopped" /\ ~dongle /\ sinkCall \in {"none", "done"}
<1>1. SupClaim
  <2>1. CASE ManagerStart \/ ManagerStop \/ MainStep
    BY <2>1 DEF ManagerStart, ManagerStop, MainStep, JoinSupervisor, LockForStop, FinishStop,
                CallSessionStop, S!BeginStop, S!StopBroken
  <2>2. CASE SupStep
    BY <2>2 DEF SupStep, SupLoop, SupNap, SupOpen, SupClaimFails, SupReset, SupStart, SupPublish,
                SupConnected, SupAnnounce, SupWatch, SupTeardown, SupDestroy, SupDisconnected,
                CallSessionStop, S!BeginStart, S!EventThreadStarts, S!StartSucceeds, S!StartFails,
                S!BeginStop, S!StopBroken
  <2>3. CASE \E s \in Senders : SendStep(s)
    BY <2>3 DEF SendStep, SendCall, SendLock, SendReturn, S!NoticeRemoval
  <2>4. CASE NoticeRemoval \/ EventThreadExits \/ EndStop \/ EnterSink \/ LeaveSink \/ BusStep
    BY <2>4 DEF NoticeRemoval, EventThreadExits, EndStop, EnterSink, LeaveSink, BusStep, Plug,
                Unplug, S!NoticeRemoval, S!EventThreadExits, S!EndStop, S!EnterSink, S!LeaveSink,
                S!Unplug
  <2> QED
    BY <2>1, <2>2, <2>3, <2>4 DEF Next, vars
<1>2. sup = "claim"
  BY <1>1 DEF SupClaim
<1> QED
  BY <1>2 DEF IInv, OwnerInv, SessionInv, EventInv

\* How the supervisor, stop(), the senders and the bus move the session.
LEMMA SessionMoves ==
  ASSUME IInv, [Next]_vars
  PROVE  [S!SessionNext \/ SupClaim]_session
<1> USE DEF S!SessionNext
<1>1. CASE ManagerStart \/ ManagerStop \/ MainStep
  BY <1>1 DEF ManagerStart, ManagerStop, MainStep, JoinSupervisor, LockForStop, FinishStop,
              CallSessionStop
<1>2. CASE SupStep
  BY <1>2 DEF SupStep, SupLoop, SupNap, SupOpen, SupClaimFails, SupReset, SupStart, SupPublish,
              SupConnected, SupAnnounce, SupWatch, SupTeardown, SupDestroy, SupDisconnected,
              CallSessionStop
<1>3. CASE \E s \in Senders : SendStep(s)
  BY <1>3 DEF SendStep, SendCall, SendLock, SendReturn
<1>4. CASE NoticeRemoval \/ EventThreadExits \/ EndStop \/ EnterSink \/ LeaveSink \/ BusStep
  BY <1>4 DEF NoticeRemoval, EventThreadExits, EndStop, EnterSink, LeaveSink, BusStep, Plug, Unplug
<1> QED
  BY <1>1, <1>2, <1>3, <1>4 DEF Next, vars

\* No send reaches a Dongle that is being built, stopped or destroyed.
THEOREM SendsAreGuarded == Spec => []SendsReachLiveSession
<1> QED
  BY IInvInit, IInvStep, Promises, PTL DEF Spec

\* After stop() nothing calls the sink any more.
THEOREM SinkEnds == Spec => []NoSinkAfterStop
<1> QED
  BY IInvInit, IInvStep, Promises, PTL DEF Spec

\* connected() is true only while there is a session, or as it is replaced.
THEOREM ConnectedHolds == Spec => []ConnectedMeansSession
<1> QED
  BY IInvInit, IInvStep, Promises, PTL DEF Spec

\* "back off exponentially when it is present yet failing" (dongle_manager.cpp:53):
\* each poll after a failed claim, a reset or a flap comes after a nap, and while
\* claims fail the naps double up to kBackoffMax, whatever the two bounds are.
THEOREM FailingIsPaced == Spec => PacedWhileFailing
<1>1. IInv /\ [Next]_vars =>
        [trouble # "none" /\ sup # "open" /\ sup' = "open" =>
           /\ lastNap' >= BackoffMin
           /\ trouble = "claim" => lastNap' >= 2 * lastNap \/ lastNap' = BackoffMax]_vars
  BY PollBegins DEF IInv, PaceInv
<1> QED
  BY <1>1, IInvInit, IInvStep, PTL DEF Spec, PacedWhileFailing

\* A session is made only when the last one has gone, threads and all.
THEOREM OneAtATime == Spec => OneSessionAtATime
<1>1. IInv /\ [Next]_vars =>
        [phase' = "new" /\ phase # "new" =>
           phase = "stopped" /\ ~dongle /\ sinkCall \in {"none", "done"}]_vars
  BY NewSession
<1> QED
  BY <1>1, IInvInit, IInvStep, PTL DEF Spec, OneSessionAtATime

\* A session under the supervisor is a DongleSession from its Init to its end,
\* which is what Dongle is proved to implement: all that happens to it is a step
\* of it, until a claim makes the next one in its place, and that is made when
\* this one has been stopped, by nobody's sink.
THEOREM SessionsAreUsedAsPromised ==
  Spec => [][\/ S!SessionNext
             \/ phase = "stopped" /\ sinkCall \in {"none", "done"} /\ S!SessionInit']_session
<1>1. IInv /\ [Next]_vars =>
        [\/ S!SessionNext
         \/ phase = "stopped" /\ sinkCall \in {"none", "done"} /\ S!SessionInit']_session
  <2> SUFFICES ASSUME IInv, [Next]_vars, SupClaim
               PROVE  phase = "stopped" /\ sinkCall \in {"none", "done"} /\ S!SessionInit'
    BY SessionMoves
  <2> QED
    BY DEF SupClaim, S!SessionInit, IInv, OwnerInv, SessionInv, EventInv
<1> QED
  BY <1>1, IInvInit, IInvStep, PTL DEF Spec

(***************************************************************************)
(* The microphone.                                                         *)
(***************************************************************************)
\* A capture thread that is not running is being joined, by one thread.
MicInv ==
  /\ sinkPc = "out" <=> sinkCall # "busy"
  /\ micRunning => mic \in {"capture", "send"}
  /\ ~micRunning => mic = "none" \/ sinkPc = "join" \/ tail = "join"
  /\ sinkPc = "join" \/ tail = "join" => ~micRunning
  /\ tail # "before" => main = "done"
  /\ tail = "after" => mic = "none" /\ ~micRunning
  /\ mic # "lost"

MicIInv == IInv /\ MicTypeOK /\ MicInv
LEMMA MicStepIsStep == [MicNext]_allVars => [Next]_vars
<1> SUFFICES ASSUME [MicNext]_allVars PROVE [Next]_vars
  OBVIOUS
<1>1. CASE ManagerAlone
  BY <1>1 DEF ManagerAlone, Next, SendStep
<1>2. CASE \E cmd \in {"start", "stop", "other"} : AudioCommand(cmd)
  BY <1>2 DEF AudioCommand, Next
<1>3. CASE MicStart \/ MicJoined \/ SinkReturns
  BY <1>3 DEF MicStart, MicJoined, SinkReturns, Next
<1>4. CASE MicCapture
  BY <1>4, MicIsSender DEF MicCapture, Next, SendStep
<1>5. CASE MicStop \/ MicSent \/ MicExits \/ MainMicStop \/ MainMicJoined
  BY <1>5 DEF MicStop, MicSent, MicExits, MainMicStop, MainMicJoined
<1>6. CASE UNCHANGED allVars
  BY <1>6 DEF allVars
<1> QED
  BY <1>1, <1>2, <1>3, <1>4, <1>5, <1>6 DEF MicNext

\* Nothing but the sink's own actions enters or leaves it, and main stays done.
LEMMA AloneKeepsSink ==
  ASSUME IInv, ManagerAlone
  PROVE  (sinkCall' = "busy" <=> sinkCall = "busy") /\ (main = "done" => main' = "done")
<1> USE DEF ManagerAlone
<1>1. CASE ManagerStart \/ ManagerStop \/ JoinSupervisor \/ LockForStop \/ FinishStop
  BY <1>1 DEF ManagerStart, ManagerStop, JoinSupervisor, LockForStop, FinishStop, CallSessionStop,
              S!BeginStop, S!StopBroken
<1>2. CASE SupClaim
  BY <1>2 DEF SupClaim, IInv, OwnerInv, SessionInv, EventInv
<1>3. CASE SupStart
  BY <1>3 DEF SupStart, S!BeginStart, S!EventThreadStarts, S!StartSucceeds, S!StartFails
<1>4. CASE SupStep /\ ~SupClaim /\ ~SupStart
  BY <1>4 DEF SupStep, SupLoop, SupNap, SupOpen, SupClaimFails, SupReset, SupPublish,
              SupConnected, SupAnnounce, SupWatch, SupTeardown, SupDestroy, SupDisconnected,
              CallSessionStop, S!BeginStop, S!StopBroken
<1>5. CASE \E s \in Senders : SendStep(s)
  BY <1>5 DEF SendStep, SendCall, SendLock, SendReturn, S!NoticeRemoval
<1>6. CASE NoticeRemoval \/ EventThreadExits \/ EndStop \/ BusStep
  BY <1>6 DEF NoticeRemoval, EventThreadExits, EndStop, BusStep, Plug, Unplug, S!NoticeRemoval,
              S!EventThreadExits, S!EndStop, S!Unplug
<1> QED
  BY <1>1, <1>2, <1>3, <1>4, <1>5, <1>6 DEF MainStep, SendStep

LEMMA MicIInvInit == MicInit => MicIInv
<1> SUFFICES ASSUME MicInit PROVE MicIInv
  OBVIOUS
<1>1. IInv
  BY IInvInit DEF MicInit
<1>2. sinkCall = "none"
  BY DEF MicInit, Init
<1> QED
  BY <1>1, <1>2 DEF MicInit, MicIInv, MicTypeOK, MicInv, IInv

LEMMA MicInvStep == MicIInv /\ [MicNext]_allVars => MicInv'
<1> SUFFICES ASSUME MicIInv, [MicNext]_allVars PROVE MicInv'
  OBVIOUS
<1> USE DEF MicIInv, MicTypeOK, MicInv
<1>0. /\ main = "done" => sinkCall # "busy"
      /\ phase = "stopped" => sinkCall # "busy"
  BY Promises DEF NoSinkAfterStop, IInv, EventInv
<1>1. CASE ManagerAlone
  BY <1>1, AloneKeepsSink DEF ManagerAlone, micVars
<1>2. CASE \E cmd \in {"start", "stop", "other"} : AudioCommand(cmd)
  BY <1>2 DEF AudioCommand, EnterSink, S!EnterSink
<1>3. CASE MicStart
  BY <1>0, <1>3 DEF MicStart, LeaveSink, S!LeaveSink
<1>4. CASE MicStop
  BY <1>0, <1>4 DEF MicStop, vars
<1>5. CASE MicJoined
  BY <1>0, <1>5 DEF MicJoined, LeaveSink, S!LeaveSink
<1>6. CASE SinkReturns
  BY <1>0, <1>6 DEF SinkReturns, LeaveSink, S!LeaveSink
<1>7. CASE MicCapture
  BY <1>7 DEF MicCapture, SendCall
<1>8. CASE MicSent \/ MicExits
  BY <1>8 DEF MicSent, MicExits, vars
<1>9. CASE MainMicStop
  BY <1>0, <1>9 DEF MainMicStop, vars
<1>10. CASE MainMicJoined
  BY <1>0, <1>10 DEF MainMicJoined, vars
<1>11. CASE UNCHANGED allVars
  BY <1>11 DEF allVars, vars, micVars
<1> QED
  BY <1>1, <1>2, <1>3, <1>4, <1>5, <1>6, <1>7, <1>8, <1>9, <1>10, <1>11 DEF MicNext

LEMMA MicTypeStep == MicIInv /\ [MicNext]_allVars => MicTypeOK'
<1> SUFFICES ASSUME MicIInv, [MicNext]_allVars PROVE MicTypeOK'
  OBVIOUS
<1>1. TypeOK'
  BY MicStepIsStep, IInvStep DEF MicIInv, IInv
<1> USE DEF MicIInv, MicTypeOK
<1>2. CASE ManagerAlone
  BY <1>1, <1>2 DEF ManagerAlone, micVars
<1>3. CASE \E cmd \in {"start", "stop", "other"} : AudioCommand(cmd)
  BY <1>1, <1>3 DEF AudioCommand
<1>4. CASE MicStart \/ MicStop \/ MicJoined \/ SinkReturns
  BY <1>1, <1>4 DEF MicStart, MicStop, MicJoined, SinkReturns
<1>5. CASE MicCapture \/ MicSent \/ MicExits \/ MainMicStop \/ MainMicJoined
  BY <1>1, <1>5 DEF MicCapture, MicSent, MicExits, MainMicStop, MainMicJoined
<1>6. CASE UNCHANGED allVars
  BY <1>1, <1>6 DEF allVars, micVars
<1> QED
  BY <1>2, <1>3, <1>4, <1>5, <1>6 DEF MicNext

LEMMA MicIInvStep == MicIInv /\ [MicNext]_allVars => MicIInv'
  BY MicStepIsStep, IInvStep, MicTypeStep, MicInvStep DEF MicIInv

\* With the microphone wired in the supervisor still does nothing else, so
\* that all of the above holds for MicSpec.
THEOREM MicIsManager == MicSpec => Spec
<1>1. MicInit => Init
  BY DEF MicInit
<1> QED
  BY <1>1, MicStepIsStep, PTL DEF MicSpec, Spec

\* The type invariant, of the supervisor and the microphone.
THEOREM TypeCorrect == MicSpec => []MicTypeOK
<1>1. MicIInv => MicTypeOK
  BY DEF MicIInv
<1> QED
  BY <1>1, MicIInvInit, MicIInvStep, PTL DEF MicSpec

\* No capture thread is overwritten before it has been joined.
THEOREM NoThreadLost == MicSpec => []MicThreadJoined
<1>1. MicIInv => MicThreadJoined
  BY DEF MicIInv, MicInv, MicThreadJoined
<1> QED
  BY <1>1, MicIInvInit, MicIInvStep, PTL DEF MicSpec

\* After main()'s mic.stop() there is no capture thread.
THEOREM MicGone == MicSpec => []MicGoneAfterStop
<1>1. MicIInv => MicGoneAfterStop
  BY DEF MicIInv, MicInv, MicGoneAfterStop
<1> QED
  BY <1>1, MicIInvInit, MicIInvStep, PTL DEF MicSpec

=============================================================================
