------------------------------ MODULE Dongle ------------------------------
(***************************************************************************)
(* The asynchronous USB driver of src/src/dongle.cpp: a ring of bulk-IN    *)
(* transfers that the event thread reaps and resubmits, fire-and-forget    *)
(* bulk-OUT transfers that any thread may submit, the heartbeat thread,    *)
(* and the owner that calls start() and stop().                            *)
(*                                                                         *)
(* A step is a shared-memory access or a libusb call.  Where two accesses  *)
(* of one thread are one step here, no other thread can tell:              *)
(*   - event_loop() reads running_, rx_inflight_, tx_inflight_ in turn,    *)
(*     but running_ only falls once the event thread exists, and           *)
(*     rx_inflight_ is then changed by the event thread alone;             *)
(*   - heartbeat_loop() reads running_ just before send() reads it again,  *)
(*     and a send that sees FALSE changes nothing.                         *)
(* libusb is external: a submitted transfer is "flying" until the event    *)
(* thread reaps it, which is when its callback runs; cancelling a transfer *)
(* that is not flying does nothing.  The RX transfers have timeout 0, so   *)
(* LIBUSB_TRANSFER_TIMED_OUT, which rx_complete treats as an empty         *)
(* completion, is covered by RxCompletes.                                  *)
(***************************************************************************)
EXTENDS Integers, FiniteSets

CONSTANTS
  Rx,             \* the transfers of the RX ring (rx_count_ of them, 8 in the code)
  Owner,          \* the thread that calls start() and stop()
  Heart,          \* the heartbeat thread
  Senders,        \* other threads that call send() (touch input, microphone)
  InitSends,      \* messages of the init sequence (11 in the code, then one)
  MaxTx,          \* bound on TX transfers in flight at once (unbounded in the code)
  Serialized,     \* TRUE: a DongleManager's mu_ keeps Senders out of start/stop
  TransferErrors  \* TRUE: calls and transfers may also fail with the device present

ASSUME ConstantsOK ==
  /\ IsFiniteSet(Rx) /\ Rx # {}
  /\ Owner # Heart /\ Owner \notin Senders /\ Heart \notin Senders
  /\ InitSends \in Nat
  /\ MaxTx \in Nat
  /\ Serialized \in BOOLEAN /\ TransferErrors \in BOOLEAN

Threads == {Owner, Heart} \cup Senders

VARIABLES
  running,     \* running_
  failed,      \* failed_
  owner,       \* program counter of the owner
  inits,       \* messages of the init sequence sent so far
  toCancel,    \* the transfers stop() has still to cancel
  evt,         \* program counter of the event thread
  heart,       \* program counter of the heartbeat thread
  send,        \* where each thread is inside send()
  rx,          \* the state of each RX transfer
  rxInflight,  \* rx_inflight_
  txFlying,    \* TX transfers libusb holds
  txInflight,  \* tx_inflight_
  present      \* the device is plugged in

ownerVars == <<owner, inits, toCancel>>
ringVars == <<rx, rxInflight>>
txVars == <<txFlying, txInflight>>
vars == <<running, failed, ownerVars, evt, heart, send, ringVars, txVars, present>>

OwnerPc == {"new", "alloc", "submit", "init", "sleep", "up", "failed",
            "joinHeart", "cancel", "joinEvents", "stopped"}
RxState == {"none", "alloc", "flying", "cancelling", "callback", "dead", "freed"}

TypeOK ==
  /\ running \in BOOLEAN /\ failed \in BOOLEAN /\ present \in BOOLEAN
  /\ owner \in OwnerPc
  /\ inits \in 0..InitSends
  /\ toCancel \subseteq Rx
  /\ evt \in {"none", "events", "sink", "resubmit", "txcb", "exited"}
  /\ heart \in {"none", "loop", "exited"}
  /\ send \in [Threads -> {"idle", "checked", "counted"}]
  /\ rx \in [Rx -> RxState]
  /\ rxInflight \in Int
  /\ txFlying \in Int /\ txInflight \in Int

Init ==
  /\ running = FALSE /\ failed = FALSE /\ present = TRUE
  /\ owner = "new"
  /\ inits = 0
  /\ toCancel = {}
  /\ evt = "none"
  /\ heart = "none"
  /\ send = [th \in Threads |-> "idle"]
  /\ rx = [t \in Rx |-> "none"]
  /\ rxInflight = 0 /\ txFlying = 0 /\ txInflight = 0

\* The outcomes libusb_submit_transfer can have.
SubmitResults ==
  IF present THEN {"ok"} \cup (IF TransferErrors THEN {"error"} ELSE {})
             ELSE {"no_device"}

\* Mutants, here and below: each is a plausible mistake in the definition it is
\* named after.  Any bad result sets failed_; none does; a failed submission
\* stays counted; nobody waits for the thread.
RaisesFailed_Any(r) == r # "ok"
RaisesFailed_Never(r) == FALSE
Recount_Forgotten(n, r) == n
Joined_NoWait(pc) == pc # "none"

\* Whether the result of a submission, or the status of a transfer, is the one
\* that sets failed_.
RaisesFailed(r) == r = "no_device"

\* A counter of transfers in flight, after a submission that ended in r.
Recount(n, r) == IF r = "ok" THEN n ELSE n - 1

\* thread::join() returns.
Joined(pc) == pc = "exited"

(***************************************************************************)
(* send(), by any thread.                                                  *)
(***************************************************************************)
Sending == {th \in Threads : send[th] # "idle"}

\* send() finds running_ set and goes on to allocate the transfer.  MaxTx
\* bounds how many sends the model lets exist at once.
SendCheck(th) ==
  /\ send[th] = "idle"
  /\ running
  /\ txFlying + Cardinality(Sending) < MaxTx
  /\ send' = [send EXCEPT ![th] = "checked"]

\* libusb_alloc_transfer or malloc fails: send() returns false.
SendNoMemory(th) ==
  /\ send[th] = "checked"
  /\ TransferErrors
  /\ send' = [send EXCEPT ![th] = "idle"]
  /\ UNCHANGED <<running, failed, ownerVars, evt, heart, ringVars, txVars,
                 present>>

\* Takes tx_mutex_ (no other thread is between its increment and the end of
\* its send) and increments tx_inflight_.
SendCount(th) ==
  /\ send[th] = "checked"
  /\ \A o \in Threads : send[o] # "counted"
  /\ send' = [send EXCEPT ![th] = "counted"]
  /\ txInflight' = txInflight + 1
  /\ UNCHANGED <<running, failed, ownerVars, evt, heart, ringVars, txFlying,
                 present>>

\* Submits, undoes the count on failure, and releases tx_mutex_.
SendSubmit(th) ==
  /\ send[th] = "counted"
  /\ send' = [send EXCEPT ![th] = "idle"]
  /\ \E r \in SubmitResults :
       /\ txFlying' = IF r = "ok" THEN txFlying + 1 ELSE txFlying
       /\ txInflight' = Recount(txInflight, r)
       /\ failed' = (failed \/ RaisesFailed(r))
  /\ UNCHANGED <<running, ownerVars, evt, heart, ringVars, present>>

\* Another thread calls send().  Under a DongleManager it holds mu_ for the
\* whole call and finds no dongle_ before start() has returned.
ExternalSend(th) ==
  /\ th \in Senders
  /\ Serialized => owner = "up"
  /\ SendCheck(th)
  /\ UNCHANGED <<running, failed, ownerVars, evt, heart, ringVars, txVars,
                 present>>

(***************************************************************************)
(* start(), by the owner.                                                  *)
(***************************************************************************)
BeginStart ==
  /\ owner = "new"
  /\ owner' = "alloc"
  /\ running' = TRUE
  /\ UNCHANGED <<failed, inits, toCancel, evt, heart, send, ringVars, txVars,
                 present>>

AllocRing ==
  /\ owner = "alloc"
  /\ rx' = [t \in Rx |-> "alloc"]
  /\ owner' = "submit"
  /\ UNCHANGED <<running, failed, inits, toCancel, evt, heart, send,
                 rxInflight, txVars, present>>

\* alloc_dma or libusb_alloc_transfer fails for one of the transfers.
AllocFails ==
  /\ owner = "alloc"
  /\ TransferErrors
  /\ \E done \in SUBSET Rx :
       /\ done # Rx
       /\ rx' = [t \in Rx |-> IF t \in done THEN "alloc" ELSE "none"]
  /\ running' = FALSE
  /\ owner' = "failed"
  /\ UNCHANGED <<failed, inits, toCancel, evt, heart, send, rxInflight, txVars,
                 present>>

SubmitRx(t) ==
  /\ owner = "submit"
  /\ rx[t] = "alloc"
  /\ \E r \in SubmitResults :
       IF r = "ok"
       THEN /\ rx' = [rx EXCEPT ![t] = "flying"]
            /\ rxInflight' = rxInflight + 1
            /\ UNCHANGED <<owner, running>>
       ELSE /\ running' = FALSE
            /\ owner' = "failed"
            /\ UNCHANGED ringVars
  /\ UNCHANGED <<failed, inits, toCancel, evt, heart, send, txVars, present>>

StartEvents ==
  /\ owner = "submit"
  /\ \A t \in Rx : rx[t] = "flying"
  /\ owner' = "init"
  /\ evt' = "events"
  /\ UNCHANGED <<running, failed, inits, toCancel, heart, send, ringVars,
                 txVars, present>>

\* The loop over the init messages, and its mutant.
MoreInits_OneTooMany == inits <= InitSends
MoreInits == inits < InitSends

\* A message of the init sequence; its result is ignored.
InitSend ==
  /\ owner = "init"
  /\ MoreInits
  /\ SendCheck(Owner)
  /\ inits' = inits + 1
  /\ UNCHANGED <<running, failed, owner, toCancel, evt, heart, ringVars,
                 txVars, present>>

StartHeart ==
  /\ owner = "init"
  /\ ~MoreInits
  /\ send[Owner] = "idle"
  /\ heart' = "loop"
  /\ owner' = "sleep"
  /\ UNCHANGED <<running, failed, inits, toCancel, evt, send, ringVars, txVars,
                 present>>

\* After the one-second sleep start() sends WifiConnect and returns true.
SendWifiConnect ==
  /\ owner = "sleep"
  /\ SendCheck(Owner)
  /\ owner' = "up"
  /\ UNCHANGED <<running, failed, inits, toCancel, evt, heart, ringVars,
                 txVars, present>>

(***************************************************************************)
(* heartbeat_loop().                                                       *)
(***************************************************************************)
HeartBeat ==
  /\ heart = "loop"
  /\ SendCheck(Heart)
  /\ UNCHANGED <<running, failed, ownerVars, evt, heart, ringVars, txVars,
                 present>>

HeartExits ==
  /\ heart = "loop"
  /\ send[Heart] = "idle"
  /\ ~running
  /\ heart' = "exited"
  /\ UNCHANGED <<running, failed, ownerVars, evt, send, ringVars, txVars,
                 present>>

(***************************************************************************)
(* event_loop() and the two completion callbacks.                          *)
(***************************************************************************)
\* A transfer completes with data: its callback feeds the parser, which calls
\* the sink for every complete message.
RxCompletes(t) ==
  /\ evt = "events"
  /\ rx[t] = "flying"
  /\ rx' = [rx EXCEPT ![t] = "callback"]
  /\ evt' = "sink"
  /\ UNCHANGED <<running, failed, ownerVars, heart, send, rxInflight, txVars,
                 present>>

\* The statuses with which a transfer ends for good: cancelled, the device
\* gone, or another (stall, overflow, error).
Deaths(t) ==
  {d \in {"cancelled", "no_device", "error"} :
     \/ d = "cancelled" /\ rx[t] = "cancelling"
     \/ d = "no_device" /\ rx[t] \in {"flying", "cancelling"} /\ ~present
     \/ d = "error" /\ rx[t] = "flying" /\ TransferErrors}

RxDies(t) ==
  /\ evt = "events"
  /\ \E d \in Deaths(t) : failed' = (failed \/ RaisesFailed(d))
  /\ rx' = [rx EXCEPT ![t] = "dead"]
  /\ rxInflight' = rxInflight - 1
  /\ UNCHANGED <<running, ownerVars, evt, heart, send, txVars, present>>

\* The sink has returned; rx_complete reads running_.
RxCheck(t) ==
  /\ evt = "sink"
  /\ rx[t] = "callback"
  /\ IF running
     THEN /\ evt' = "resubmit"
          /\ UNCHANGED ringVars
     ELSE /\ evt' = "events"
          /\ rx' = [rx EXCEPT ![t] = "dead"]
          /\ rxInflight' = rxInflight - 1
  /\ UNCHANGED <<running, failed, ownerVars, heart, send, txVars, present>>

RxResubmit(t) ==
  /\ evt = "resubmit"
  /\ rx[t] = "callback"
  /\ \E r \in SubmitResults :
       /\ rx' = [rx EXCEPT ![t] = IF r = "ok" THEN "flying" ELSE "dead"]
       /\ rxInflight' = Recount(rxInflight, r)
       /\ failed' = (failed \/ RaisesFailed(r))
  /\ evt' = "events"
  /\ UNCHANGED <<running, ownerVars, heart, send, txVars, present>>

\* A TX transfer ends, well or not (its timeout is one second): tx_complete
\* frees it, and then decrements tx_inflight_.
TxCompletes ==
  /\ evt = "events"
  /\ txFlying > 0
  /\ txFlying' = txFlying - 1
  /\ evt' = "txcb"
  /\ UNCHANGED <<running, failed, ownerVars, heart, send, ringVars, txInflight,
                 present>>

TxUncount ==
  /\ evt = "txcb"
  /\ txInflight' = txInflight - 1
  /\ evt' = "events"
  /\ UNCHANGED <<running, failed, ownerVars, heart, send, ringVars, txFlying,
                 present>>

\* The condition under which event_loop() ends, and two mutants: it does not wait
\* for the transfers; it compares with >= 0.
Drained_NotAwaited == ~running
Drained_Never == ~(running \/ rxInflight >= 0 \/ txInflight > 0)
Drained == ~(running \/ rxInflight > 0 \/ txInflight > 0)

EventsExit ==
  /\ evt = "events"
  /\ Drained
  /\ evt' = "exited"
  /\ UNCHANGED <<running, failed, ownerVars, heart, send, ringVars, txVars,
                 present>>

(***************************************************************************)
(* stop(), by the owner.                                                   *)
(***************************************************************************)
OwnerFree == owner \in {"up", "failed"} /\ send[Owner] = "idle"

\* running_.exchange(false); a second stop(), or one after a failed start(),
\* returns at once and frees nothing.
BeginStop ==
  /\ OwnerFree
  /\ Serialized => \A th \in Senders : send[th] = "idle"
  /\ owner' = IF running THEN "joinHeart" ELSE "stopped"
  /\ running' = FALSE
  /\ UNCHANGED <<failed, inits, toCancel, evt, heart, send, ringVars, txVars,
                 present>>

JoinHeart ==
  /\ owner = "joinHeart"
  /\ Joined(heart)
  /\ owner' = "cancel"
  /\ toCancel' = Rx
  /\ UNCHANGED <<running, failed, inits, evt, heart, send, ringVars, txVars,
                 present>>

\* libusb_cancel_transfer finds nothing to cancel unless t is flying.
CancelRx(t) ==
  /\ owner = "cancel"
  /\ t \in toCancel
  /\ toCancel' = toCancel \ {t}
  /\ rx' = IF rx[t] = "flying" THEN [rx EXCEPT ![t] = "cancelling"] ELSE rx
  /\ owner' = IF toCancel = {t} THEN "joinEvents" ELSE "cancel"
  /\ UNCHANGED <<running, failed, inits, evt, heart, send, rxInflight, txVars,
                 present>>

JoinEventsAndFree ==
  /\ owner = "joinEvents"
  /\ Joined(evt)
  /\ rx' = [t \in Rx |-> "freed"]
  /\ owner' = "stopped"
  /\ UNCHANGED <<running, failed, inits, toCancel, evt, heart, send,
                 rxInflight, txVars, present>>

(***************************************************************************)
(* The device, and the specification.                                      *)
(***************************************************************************)
Unplug ==
  /\ present
  /\ present' = FALSE
  /\ UNCHANGED <<running, failed, ownerVars, evt, heart, send, ringVars,
                 txVars>>

RxStep(t) == RxCompletes(t) \/ RxDies(t) \/ RxCheck(t) \/ RxResubmit(t)
SendStep(th) == SendNoMemory(th) \/ SendCount(th) \/ SendSubmit(th)

Next ==
  \/ BeginStart \/ AllocRing \/ AllocFails \/ StartEvents
  \/ InitSend \/ StartHeart \/ SendWifiConnect
  \/ \E th \in Threads : SendStep(th)
  \/ \E th \in Senders : ExternalSend(th)
  \/ HeartBeat \/ HeartExits
  \/ \E t \in Rx : SubmitRx(t) \/ CancelRx(t) \/ RxStep(t)
  \/ TxCompletes \/ TxUncount \/ EventsExit
  \/ BeginStop \/ JoinHeart \/ JoinEventsAndFree
  \/ Unplug
  \/ (owner = "stopped" /\ UNCHANGED vars)

(***************************************************************************)
(* Every thread of the program keeps running (weak fairness of its steps). *)
(* libusb reports every transfer that has ended, however busy the others   *)
(* are (strong fairness of the TX completions and of the transfers that    *)
(* die; the heartbeat, which a bound of the model may hold back, is strong *)
(* for the same reason), and memory does not run out for ever.  The device *)
(* need not send, fail or go away, no thread of the application has to     *)
(* call send(), and the owner need not stop.                               *)
(***************************************************************************)
Fairness ==
  /\ \A th \in Threads : SF_vars(SendCount(th)) /\ WF_vars(SendSubmit(th))
                        /\ <>[][~SendNoMemory(th)]_vars
  /\ SF_vars(HeartBeat) /\ WF_vars(HeartExits)
  /\ \A t \in Rx : SF_vars(RxDies(t) /\ (~present \/ rx[t] = "cancelling"))
                   /\ WF_vars(CancelRx(t))
                   /\ WF_vars(RxCheck(t)) /\ WF_vars(RxResubmit(t))
  /\ SF_vars(TxCompletes) /\ WF_vars(TxUncount) /\ WF_vars(EventsExit)
  /\ WF_vars(JoinHeart) /\ WF_vars(JoinEventsAndFree)

Spec == Init /\ [][Next]_vars
FairSpec == Spec /\ Fairness

(***************************************************************************)
(* Properties.                                                             *)
(***************************************************************************)
InRing == {t \in Rx : rx[t] \in {"flying", "cancelling", "callback"}}
Counted == {th \in Threads : send[th] = "counted"}

\* rx_inflight_ counts exactly the RX transfers libusb holds or is calling
\* back, and tx_inflight_ is never below the TX transfers libusb holds: the
\* event loop, which reads nothing else, neither leaves early nor hangs on a
\* stale count.
InflightAccounting ==
  /\ rxInflight = Cardinality(InRing)
  /\ txInflight = txFlying + Cardinality(Counted)
                    + (IF evt = "txcb" THEN 1 ELSE 0)

\* When the event thread is gone, every RX transfer has had its last callback:
\* what stop() frees after the join, nothing can still write to.
QuietAfterExit == evt = "exited" => \A t \in Rx : rx[t] \in {"dead", "freed"}

\* failed() is never a false alarm, so the supervisor never tears a working
\* session down; and, sends being kept out of start(), a session whose start()
\* failed never raises it.
FailedMeansGone ==
  failed => /\ ~present
            /\ Serialized => owner \notin {"new", "alloc", "submit", "failed"}

\* What the comment in stop() promises of every transfer, the TX ones included:
\* once it has returned none is in flight.
StopLeavesNothingInFlight ==
  (owner = "stopped" /\ evt = "exited") => txFlying = 0 /\ InRing = {}

\* What the comment in stop() says of the cancel loop: when it ends no RX
\* transfer is left waiting for the device.
StopCancelsEveryRx == owner = "joinEvents" => \A t \in Rx : rx[t] # "flying"

\* A session that is up notices that its device has gone, even when every RX
\* transfer died before (the heartbeat finds out).
RemovalDetected == (owner = "up" /\ ~present) ~> (failed \/ owner # "up")

\* A stop() of a session whose device has gone returns.
Stopping == owner \in {"joinHeart", "cancel", "joinEvents"}
StopReturnsOnceGone == (Stopping /\ ~present) ~> owner = "stopped"

(***************************************************************************)
(* The refinement: a Dongle is a DongleSession.                            *)
(***************************************************************************)
PhaseOf ==
  CASE owner = "new" -> "new"
    [] owner \in {"alloc", "submit", "init", "sleep"} -> "starting"
    [] owner = "up" -> "up"
    [] owner = "failed" -> "broken"
    [] Stopping -> "stopping"
    [] owner = "stopped" -> "stopped"

SinkCallOf ==
  CASE evt = "none" -> "none"
    [] evt \in {"events", "resubmit", "txcb"} -> "idle"
    [] evt = "sink" -> "busy"
    [] evt = "exited" -> "done"

Session == INSTANCE DongleSession WITH phase <- PhaseOf, sinkCall <- SinkCallOf

SessionSafety == Session!SessionSafety
SessionSpec == Session!SessionSpec
=============================================================================
