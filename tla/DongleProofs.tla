---------------------------- MODULE DongleProofs ----------------------------
(***************************************************************************)
(* Proofs about Dongle, for every ring, set of senders and bound, with     *)
(* sends serialised against start and stop or not.                         *)
(***************************************************************************)
EXTENDS Dongle, FiniteSetTheorems, TLAPS

\* The names of groups of variables and of small conditions, expanded everywhere.
USE DEF ownerVars, ringVars, txVars, RaisesFailed, Recount, Joined, Deaths,
        Drained, MoreInits

Early == {"new", "alloc", "submit", "failed"}
WithThreads == {"init", "sleep", "up", "joinHeart", "cancel", "joinEvents"}

\* Which states of the transfers go with which states of the two threads that
\* change them.
RingInv ==
  /\ owner \in {"new", "alloc"} => \A t \in Rx : rx[t] = "none"
  /\ owner = "submit" => \A t \in Rx : rx[t] \in {"alloc", "flying"}
  /\ owner = "failed" => ~running
  /\ owner \in Early => evt = "none"
  /\ owner \in WithThreads => evt # "none"
  /\ evt = "none" => \A t \in Rx : rx[t] \in {"none", "alloc", "flying"}
  /\ evt # "none" =>
       \A t \in Rx : rx[t] \in {"flying", "cancelling", "callback", "dead", "freed"}
  /\ \A t \in Rx : rx[t] = "callback" => evt \in {"sink", "resubmit"}
  /\ \A t, u \in Rx : rx[t] = "callback" /\ rx[u] = "callback" => t = u
  /\ QuietAfterExit

\* tx_mutex_ admits one thread, and nobody sends before start() does.
SendInv ==
  /\ \A a, b \in Counted : a = b
  /\ owner \in Early => send[Owner] = "idle" /\ heart = "none"
  /\ heart = "none" => send[Heart] = "idle"
  /\ Serialized /\ owner \in Early => \A th \in Senders : send[th] = "idle"

IInv == TypeOK /\ RingInv /\ SendInv /\ InflightAccounting /\ FailedMeansGone

\* The Boolean variables and the others, which different provers handle.
FlagsOK == running \in BOOLEAN /\ failed \in BOOLEAN /\ present \in BOOLEAN
StateOK ==
  /\ owner \in OwnerPc
  /\ inits \in 0..InitSends
  /\ toCancel \subseteq Rx
  /\ evt \in {"none", "events", "sink", "resubmit", "txcb", "exited"}
  /\ heart \in {"none", "loop", "exited"}
  /\ send \in [Threads -> {"idle", "checked", "counted"}]
  /\ rx \in [Rx -> RxState]
  /\ rxInflight \in Int /\ txFlying \in Int /\ txInflight \in Int

LEMMA TypeParts == TypeOK <=> FlagsOK /\ StateOK
  BY DEF TypeOK, FlagsOK, StateOK

LEMMA FlagsStep == FlagsOK /\ [Next]_vars => FlagsOK'
<1> SUFFICES ASSUME FlagsOK, [Next]_vars PROVE FlagsOK'
  OBVIOUS
<1> USE DEF FlagsOK
<1>1. ASSUME NEW th \in Threads, SendStep(th) PROVE FlagsOK'
  BY <1>1 DEF SendStep, SendNoMemory, SendCount, SendSubmit
<1>2. ASSUME NEW th \in Senders, ExternalSend(th) PROVE FlagsOK'
  BY <1>2 DEF ExternalSend
<1>3. CASE BeginStart \/ AllocRing \/ AllocFails \/ StartEvents
  BY <1>3 DEF BeginStart, AllocRing, AllocFails, StartEvents
<1>4. CASE InitSend \/ StartHeart \/ SendWifiConnect
  BY <1>4 DEF InitSend, StartHeart, SendWifiConnect
<1>5. CASE HeartBeat \/ HeartExits
  BY <1>5 DEF HeartBeat, HeartExits
<1>6. ASSUME NEW t \in Rx, SubmitRx(t) \/ CancelRx(t) PROVE FlagsOK'
  BY <1>6 DEF SubmitRx, CancelRx
<1>7. ASSUME NEW t \in Rx, RxStep(t) PROVE FlagsOK'
  BY <1>7 DEF RxStep, RxCompletes, RxDies, RxCheck, RxResubmit
<1>8. CASE TxCompletes \/ TxUncount \/ EventsExit
  BY <1>8 DEF TxCompletes, TxUncount, EventsExit
<1>9. CASE BeginStop \/ JoinHeart \/ JoinEventsAndFree
  BY <1>9 DEF BeginStop, JoinHeart, JoinEventsAndFree
<1>10. CASE Unplug \/ UNCHANGED vars
  BY <1>10 DEF Unplug, vars
<1> QED
  BY <1>1, <1>2, <1>3, <1>4, <1>5, <1>6, <1>7, <1>8, <1>9, <1>10 DEF Next

LEMMA StateStep == StateOK /\ [Next]_vars => StateOK'
<1> SUFFICES ASSUME StateOK, [Next]_vars PROVE StateOK'
  OBVIOUS
<1> USE ConstantsOK DEF ConstantsOK, StateOK, OwnerPc, RxState
<1>1. ASSUME NEW th \in Threads, SendStep(th) PROVE StateOK'
  BY <1>1 DEF SendStep, SendNoMemory, SendCount, SendSubmit, SubmitResults
<1>2. ASSUME NEW th \in Senders, ExternalSend(th) PROVE StateOK'
  BY <1>2 DEF ExternalSend, SendCheck, Threads
<1>3. CASE BeginStart \/ AllocRing \/ AllocFails \/ StartEvents
  BY <1>3 DEF BeginStart, AllocRing, AllocFails, StartEvents
<1>4. CASE InitSend \/ StartHeart \/ SendWifiConnect
  BY <1>4 DEF InitSend, StartHeart, SendWifiConnect, SendCheck
<1>5. CASE HeartBeat \/ HeartExits
  BY <1>5 DEF HeartBeat, HeartExits, SendCheck
<1>6. ASSUME NEW t \in Rx, SubmitRx(t) \/ CancelRx(t) PROVE StateOK'
  BY <1>6 DEF SubmitRx, CancelRx
<1>7. ASSUME NEW t \in Rx, RxStep(t) PROVE StateOK'
  BY <1>7 DEF RxStep, RxCompletes, RxDies, RxCheck, RxResubmit
<1>8. CASE TxCompletes \/ TxUncount \/ EventsExit
  BY <1>8 DEF TxCompletes, TxUncount, EventsExit
<1>9. CASE BeginStop \/ JoinHeart \/ JoinEventsAndFree
  BY <1>9 DEF BeginStop, JoinHeart, JoinEventsAndFree
<1>10. CASE Unplug \/ UNCHANGED vars
  BY <1>10 DEF Unplug, vars
<1> QED
  BY <1>1, <1>2, <1>3, <1>4, <1>5, <1>6, <1>7, <1>8, <1>9, <1>10 DEF Next

\* Every variable keeps its type.
THEOREM TypeCorrect == Spec => []TypeOK
<1>1. Init => FlagsOK
  BY DEF Init, FlagsOK
<1>2. Init => StateOK
  BY ConstantsOK DEF ConstantsOK, Init, StateOK, OwnerPc, RxState
<1>3. Init => TypeOK
  BY <1>1, <1>2, TypeParts
<1>4. TypeOK /\ [Next]_vars => TypeOK'
  <2>1. FlagsOK' /\ StateOK' => TypeOK'
    BY DEF TypeOK, FlagsOK, StateOK
  <2> QED
    BY <2>1, TypeParts, FlagsStep, StateStep
<1> QED
  BY <1>3, <1>4, PTL DEF Spec

-----------------------------------------------------------------------------
\* The ring is a finite set, so a count of 0 says that it is empty.
LEMMA RingFinite == IsFiniteSet(InRing)
  BY ConstantsOK, FS_Subset DEF ConstantsOK, InRing

LEMMA RingCount ==
  ASSUME rxInflight = Cardinality(InRing)
  PROVE  /\ rxInflight \in Nat
         /\ rxInflight = 0 => InRing = {}
  BY RingFinite, FS_CardinalityType, FS_EmptySet

\* A set of at most one element has a cardinality of 0 or 1.
LEMMA CountOne ==
  ASSUME NEW A, \A a, b \in A : a = b
  PROVE  Cardinality(A) = IF A = {} THEN 0 ELSE 1
<1>1. CASE A = {}
  BY <1>1, FS_EmptySet
<1>2. CASE A # {}
  <2>1. PICK a : a \in A
    BY <1>2
  <2>2. A = {a}
    BY <2>1
  <2> QED
    BY <1>2, <2>2, FS_Singleton
<1> QED
  BY <1>1, <1>2

\* RingInv and SendInv do not depend on the counts, except that the event
\* thread leaves its loop only when the count of the ring is 0.
LEMMA RingStep ==
  ASSUME StateOK, RingInv, SendInv, rxInflight = Cardinality(InRing), [Next]_vars
  PROVE  RingInv'
<1> USE DEF StateOK, OwnerPc, RxState, RingInv, Early, WithThreads, QuietAfterExit
<1>1. ASSUME NEW th \in Threads, SendStep(th) PROVE RingInv'
  BY <1>1 DEF SendStep, SendNoMemory, SendCount, SendSubmit
<1>2. ASSUME NEW th \in Senders, ExternalSend(th) PROVE RingInv'
  BY <1>2 DEF ExternalSend
<1>3. CASE BeginStart \/ AllocRing \/ AllocFails \/ StartEvents
  BY <1>3 DEF BeginStart, AllocRing, AllocFails, StartEvents
<1>4. CASE InitSend \/ StartHeart \/ SendWifiConnect
  BY <1>4 DEF InitSend, StartHeart, SendWifiConnect
<1>5. CASE HeartBeat \/ HeartExits
  BY <1>5 DEF HeartBeat, HeartExits
<1>6. ASSUME NEW t \in Rx, SubmitRx(t) PROVE RingInv'
  BY <1>6 DEF SubmitRx
<1>7. ASSUME NEW t \in Rx, CancelRx(t) PROVE RingInv'
  BY <1>7 DEF CancelRx
<1>8. ASSUME NEW t \in Rx, RxCompletes(t) PROVE RingInv'
  BY <1>8 DEF RxCompletes
<1>9. ASSUME NEW t \in Rx, RxDies(t) PROVE RingInv'
  BY <1>9 DEF RxDies
<1>10. ASSUME NEW t \in Rx, RxCheck(t) PROVE RingInv'
  BY <1>10 DEF RxCheck
<1>11. ASSUME NEW t \in Rx, RxResubmit(t) PROVE RingInv'
  BY <1>11 DEF RxResubmit
<1>12. CASE TxCompletes \/ TxUncount
  BY <1>12 DEF TxCompletes, TxUncount
<1>13. CASE EventsExit
  <2>1. rxInflight = 0
    BY <1>13, RingCount DEF EventsExit
  <2>2. InRing = {}
    BY <2>1, RingCount
  <2>3. \A t \in Rx : rx[t] \in {"dead", "freed"}
    BY <1>13, <2>2 DEF EventsExit, InRing
  <2> QED
    BY <1>13, <2>3 DEF EventsExit
<1>14. CASE BeginStop \/ JoinHeart \/ JoinEventsAndFree
  BY <1>14 DEF BeginStop, OwnerFree, JoinHeart, JoinEventsAndFree
<1>15. CASE Unplug \/ UNCHANGED vars
  BY <1>15 DEF Unplug, vars
<1> QED
  BY <1>1, <1>2, <1>3, <1>4, <1>5, <1>6, <1>7, <1>8, <1>9, <1>10, <1>11, <1>12,
     <1>13, <1>14, <1>15 DEF Next, RxStep

LEMMA SendInvStep ==
  ASSUME StateOK, RingInv, SendInv, [Next]_vars
  PROVE  SendInv'
<1> USE ConstantsOK
    DEF ConstantsOK, StateOK, OwnerPc, RxState, SendInv, Early, Threads, Counted
<1>1. ASSUME NEW th \in Threads, SendStep(th) PROVE SendInv'
  BY <1>1 DEF SendStep, SendNoMemory, SendCount, SendSubmit
<1>2. ASSUME NEW th \in Senders, ExternalSend(th) PROVE SendInv'
  BY <1>2 DEF ExternalSend, SendCheck
<1>3. CASE BeginStart \/ AllocRing \/ AllocFails \/ StartEvents
  BY <1>3 DEF BeginStart, AllocRing, AllocFails, StartEvents
<1>4. CASE InitSend \/ StartHeart \/ SendWifiConnect
  BY <1>4 DEF InitSend, StartHeart, SendWifiConnect, SendCheck
<1>5. CASE HeartBeat \/ HeartExits
  BY <1>5 DEF HeartBeat, HeartExits, SendCheck
<1>6. ASSUME NEW t \in Rx, SubmitRx(t) \/ CancelRx(t) PROVE SendInv'
  BY <1>6 DEF SubmitRx, CancelRx
<1>7. ASSUME NEW t \in Rx, RxStep(t) PROVE SendInv'
  BY <1>7 DEF RxStep, RxCompletes, RxDies, RxCheck, RxResubmit
<1>8. CASE TxCompletes \/ TxUncount \/ EventsExit
  BY <1>8 DEF TxCompletes, TxUncount, EventsExit
<1>9. CASE BeginStop \/ JoinHeart \/ JoinEventsAndFree
  BY <1>9 DEF BeginStop, JoinHeart, JoinEventsAndFree
<1>10. CASE Unplug \/ UNCHANGED vars
  BY <1>10 DEF Unplug, vars
<1> QED
  BY <1>1, <1>2, <1>3, <1>4, <1>5, <1>6, <1>7, <1>8, <1>9, <1>10 DEF Next

\* rx_inflight_ moves with the ring, one transfer at a time.
LEMMA RxCountStep ==
  ASSUME StateOK, RingInv, rxInflight = Cardinality(InRing), [Next]_vars
  PROVE  (rxInflight = Cardinality(InRing))'
<1> DEFINE Same == InRing' = InRing /\ rxInflight' = rxInflight
<1> USE DEF StateOK, OwnerPc, RxState, RingInv, Early, WithThreads, InRing
<1>1. ASSUME NEW th \in Threads, SendStep(th) PROVE Same
  BY <1>1 DEF SendStep, SendNoMemory, SendCount, SendSubmit
<1>2. ASSUME NEW th \in Senders, ExternalSend(th) PROVE Same
  BY <1>2 DEF ExternalSend
<1>3. CASE BeginStart \/ AllocRing \/ AllocFails \/ StartEvents
  <2>1. Same
    BY <1>3 DEF BeginStart, AllocRing, AllocFails, StartEvents
  <2> QED
    BY <2>1
<1>4. CASE InitSend \/ StartHeart \/ SendWifiConnect \/ HeartBeat \/ HeartExits
  BY <1>4 DEF InitSend, StartHeart, SendWifiConnect, HeartBeat, HeartExits
<1>5. ASSUME NEW t \in Rx, SubmitRx(t)
      PROVE  (rxInflight = Cardinality(InRing))'
  <2>1. CASE rx' = rx /\ rxInflight' = rxInflight
    BY <2>1
  <2>2. CASE rx' = [rx EXCEPT ![t] = "flying"] /\ rxInflight' = rxInflight + 1
    <3>1. InRing' = InRing \cup {t}
      BY <2>2
    <3>2. t \notin InRing
      BY <1>5 DEF SubmitRx
    <3>3. Cardinality(InRing \cup {t}) = Cardinality(InRing) + 1
      BY <3>2, RingFinite, FS_AddElement
    <3> QED
      BY <2>2, <3>1, <3>3
  <2> QED
    BY <1>5, <2>1, <2>2 DEF SubmitRx
<1>6. ASSUME NEW t \in Rx, CancelRx(t) PROVE Same
  BY <1>6 DEF CancelRx
<1>7. ASSUME NEW t \in Rx, RxCompletes(t) PROVE Same
  BY <1>7 DEF RxCompletes
<1>8. ASSUME NEW t \in Rx, t \in InRing, rx' = [rx EXCEPT ![t] = "dead"],
             rxInflight' = rxInflight - 1
      PROVE  (rxInflight = Cardinality(InRing))'
  <2>1. InRing' = InRing \ {t}
    BY <1>8
  <2>2. Cardinality(InRing \ {t}) = Cardinality(InRing) - 1
    <3> HIDE DEF InRing
    <3> QED
      BY <1>8, RingFinite, FS_RemoveElement
  <2>3. Cardinality(InRing') = rxInflight'
    BY <1>8, <2>1, <2>2
  <2> QED
    BY <2>3
<1>9. ASSUME NEW t \in Rx, RxDies(t)
      PROVE  (rxInflight = Cardinality(InRing))'
  BY <1>9, <1>8 DEF RxDies
<1>10. ASSUME NEW t \in Rx, RxCheck(t)
       PROVE  (rxInflight = Cardinality(InRing))'
  <2>1. t \in InRing
    BY <1>10 DEF RxCheck
  <2> QED
    BY <1>10, <2>1, <1>8 DEF RxCheck
<1>11. ASSUME NEW t \in Rx, RxResubmit(t)
       PROVE  (rxInflight = Cardinality(InRing))'
  <2>1. t \in InRing
    BY <1>11 DEF RxResubmit
  <2>2. CASE rx' = [rx EXCEPT ![t] = "flying"] /\ rxInflight' = rxInflight
    <3>1. InRing' = InRing
      BY <2>1, <2>2
    <3> QED
      BY <2>2, <3>1
  <2>3. CASE rx' = [rx EXCEPT ![t] = "dead"] /\ rxInflight' = rxInflight - 1
    BY <2>1, <2>3, <1>8
  <2> QED
    BY <1>11, <2>2, <2>3 DEF RxResubmit
<1>12. CASE TxCompletes \/ TxUncount \/ EventsExit
  BY <1>12 DEF TxCompletes, TxUncount, EventsExit
<1>13. CASE BeginStop \/ JoinHeart
  BY <1>13 DEF BeginStop, JoinHeart
<1>14. CASE JoinEventsAndFree
  <2>1. InRing = {}
    BY <1>14 DEF JoinEventsAndFree, QuietAfterExit
  <2>2. InRing' = {}
    BY <1>14 DEF JoinEventsAndFree
  <2> QED
    BY <1>14, <2>1, <2>2 DEF JoinEventsAndFree
<1>15. CASE Unplug \/ UNCHANGED vars
  BY <1>15 DEF Unplug, vars
<1> QED
  BY <1>1, <1>2, <1>3, <1>4, <1>5, <1>6, <1>7, <1>9, <1>10, <1>11, <1>12,
     <1>13, <1>14, <1>15 DEF Next, RxStep

\* tx_inflight_ as the accounting has it.
TxCount ==
  txInflight = txFlying + Cardinality(Counted) + (IF evt = "txcb" THEN 1 ELSE 0)

\* tx_inflight_ moves with the thread that holds tx_mutex_ and with tx_complete.
LEMMA TxCountStep ==
  ASSUME StateOK, RingInv, SendInv, SendInv', TxCount, [Next]_vars
  PROVE  TxCount'
<1> DEFINE InCallback == IF evt = "txcb" THEN 1 ELSE 0
<1> DEFINE Senders1 == IF Counted = {} THEN 0 ELSE 1
<1>1. txInflight = txFlying + Senders1 + InCallback
  <2>1. \A a, b \in Counted : a = b
    BY DEF SendInv
  <2>2. Cardinality(Counted) = Senders1
    BY <2>1, CountOne
  <2> QED
    BY <2>2 DEF TxCount
<1>2. SUFFICES txInflight' = txFlying' + Senders1' + InCallback'
  <2>1. \A a, b \in Counted' : a = b
    BY DEF SendInv
  <2>2. Cardinality(Counted') = Senders1'
    BY <2>1, CountOne
  <2> QED
    BY <2>2 DEF TxCount
<1> USE <1>1 DEF StateOK, Counted
<1>3. ASSUME NEW th \in Threads, SendNoMemory(th)
      PROVE  txInflight' = txFlying' + Senders1' + InCallback'
  <2>1. Counted' = Counted
    BY <1>3 DEF SendNoMemory
  <2> QED
    BY <1>3, <2>1 DEF SendNoMemory
<1>4. ASSUME NEW th \in Threads, SendCount(th)
      PROVE  txInflight' = txFlying' + Senders1' + InCallback'
  <2>1. Counted = {} /\ th \in Counted'
    BY <1>4 DEF SendCount
  <2> QED
    BY <1>4, <2>1 DEF SendCount
<1>5. ASSUME NEW th \in Threads, SendSubmit(th)
      PROVE  txInflight' = txFlying' + Senders1' + InCallback'
  <2>1. Counted = {th} /\ Counted' = {}
    BY <1>5 DEF SendSubmit, SendInv
  <2>2. \/ txFlying' = txFlying + 1 /\ txInflight' = txInflight
        \/ txFlying' = txFlying /\ txInflight' = txInflight - 1
    BY <1>5 DEF SendSubmit
  <2>3. evt' = evt
    BY <1>5 DEF SendSubmit
  <2> QED
    BY <2>1, <2>2, <2>3
<1>6. ASSUME NEW th \in Threads, SendCheck(th), txFlying' = txFlying,
             txInflight' = txInflight, evt' = evt
      PROVE  txInflight' = txFlying' + Senders1' + InCallback'
  <2>1. Counted' = Counted
    BY <1>6 DEF SendCheck
  <2> QED
    BY <1>6, <2>1
<1>7. ASSUME NEW th \in Senders, ExternalSend(th)
      PROVE  txInflight' = txFlying' + Senders1' + InCallback'
  BY <1>7, <1>6 DEF ExternalSend, Threads
<1>8. CASE InitSend \/ SendWifiConnect \/ HeartBeat
  BY <1>8, <1>6 DEF InitSend, SendWifiConnect, HeartBeat, Threads
<1>9. CASE BeginStart \/ AllocRing \/ AllocFails \/ StartEvents
  BY <1>9 DEF BeginStart, AllocRing, AllocFails, StartEvents, RingInv, Early
<1>10. CASE StartHeart \/ HeartExits
  BY <1>10 DEF StartHeart, HeartExits
<1>11. ASSUME NEW t \in Rx, SubmitRx(t) \/ CancelRx(t)
       PROVE  txInflight' = txFlying' + Senders1' + InCallback'
  BY <1>11 DEF SubmitRx, CancelRx
<1>12. ASSUME NEW t \in Rx, RxStep(t)
       PROVE  txInflight' = txFlying' + Senders1' + InCallback'
  BY <1>12 DEF RxStep, RxCompletes, RxDies, RxCheck, RxResubmit
<1>13. CASE TxCompletes \/ TxUncount \/ EventsExit
  BY <1>13 DEF TxCompletes, TxUncount, EventsExit
<1>14. CASE BeginStop \/ JoinHeart \/ JoinEventsAndFree
  BY <1>14 DEF BeginStop, JoinHeart, JoinEventsAndFree
<1>15. CASE Unplug \/ UNCHANGED vars
  BY <1>15 DEF Unplug, vars
<1> QED
  BY <1>3, <1>4, <1>5, <1>7, <1>8, <1>9, <1>10, <1>11, <1>12, <1>13, <1>14,
     <1>15 DEF Next, SendStep

\* failed_ is raised only by a call or a transfer that finds the device gone.
LEMMA FailedStep ==
  ASSUME FlagsOK, StateOK, RingInv, SendInv, FailedMeansGone, [Next]_vars
  PROVE  FailedMeansGone'
<1> USE ConstantsOK DEF ConstantsOK, FlagsOK, StateOK, RingInv, SendInv,
        FailedMeansGone, Early, Threads, SubmitResults
<1>1. ASSUME NEW th \in Threads, SendNoMemory(th) PROVE FailedMeansGone'
  BY <1>1 DEF SendNoMemory
<1>2. ASSUME NEW th \in Threads, SendCount(th) PROVE FailedMeansGone'
  BY <1>2 DEF SendCount
<1>3. ASSUME NEW th \in Threads, SendSubmit(th) PROVE FailedMeansGone'
  <2>1. Serialized => owner \notin Early
    BY <1>3 DEF SendSubmit
  <2>2. failed' => failed \/ ~present
    BY <1>3 DEF SendSubmit
  <2>3. present' = present /\ owner' = owner
    BY <1>3 DEF SendSubmit
  <2> QED
    BY <2>1, <2>2, <2>3
<1>4. ASSUME NEW th \in Senders, ExternalSend(th) PROVE FailedMeansGone'
  BY <1>4 DEF ExternalSend
<1>5. CASE BeginStart \/ AllocRing \/ AllocFails \/ StartEvents
  BY <1>5 DEF BeginStart, AllocRing, AllocFails, StartEvents
<1>6. CASE InitSend \/ StartHeart \/ SendWifiConnect \/ HeartBeat \/ HeartExits
  BY <1>6 DEF InitSend, StartHeart, SendWifiConnect, HeartBeat, HeartExits
<1>7. ASSUME NEW t \in Rx, SubmitRx(t) \/ CancelRx(t) PROVE FailedMeansGone'
  BY <1>7 DEF SubmitRx, CancelRx
<1>8. ASSUME NEW t \in Rx, RxCompletes(t) \/ RxDies(t) PROVE FailedMeansGone'
  <2>1. evt = "events" /\ owner' = owner /\ present' = present
    BY <1>8 DEF RxCompletes, RxDies
  <2>2. failed' => failed \/ ~present
    BY <1>8 DEF RxCompletes, RxDies
  <2> QED
    BY <2>1, <2>2
<1>9. ASSUME NEW t \in Rx, RxCheck(t) \/ RxResubmit(t) PROVE FailedMeansGone'
  <2>1. evt # "none" /\ owner' = owner /\ present' = present
    BY <1>9 DEF RxCheck, RxResubmit
  <2>2. failed' => failed \/ ~present
    BY <1>9 DEF RxCheck, RxResubmit
  <2> QED
    BY <2>1, <2>2
<1>10. CASE TxCompletes \/ TxUncount \/ EventsExit
  BY <1>10 DEF TxCompletes, TxUncount, EventsExit
<1>11. CASE BeginStop \/ JoinHeart \/ JoinEventsAndFree
  BY <1>11 DEF BeginStop, OwnerFree, JoinHeart, JoinEventsAndFree
<1>12. CASE Unplug \/ UNCHANGED vars
  BY <1>12 DEF Unplug, vars
<1> QED
  BY <1>1, <1>2, <1>3, <1>4, <1>5, <1>6, <1>7, <1>8, <1>9, <1>10, <1>11, <1>12
     DEF Next, SendStep, RxStep

LEMMA AccountingParts ==
  InflightAccounting <=> rxInflight = Cardinality(InRing) /\ TxCount
  BY DEF InflightAccounting, TxCount

\* The inductive invariant.
THEOREM Inductive == Spec => []IInv
<1>1. Init => IInv
  <2> SUFFICES ASSUME Init PROVE IInv
    OBVIOUS
  <2>1. TypeOK
    <3>1. FlagsOK
      BY DEF Init, FlagsOK
    <3>2. StateOK
      BY ConstantsOK DEF ConstantsOK, Init, StateOK, OwnerPc, RxState
    <3> QED
      BY <3>1, <3>2, TypeParts
  <2>2. RingInv
    BY DEF Init, RingInv, Early, WithThreads, QuietAfterExit
  <2>3. SendInv
    BY DEF Init, SendInv, Counted, Threads
  <2>4. InRing = {} /\ Counted = {}
    BY DEF Init, InRing, Counted
  <2>5. InflightAccounting
    BY <2>4, FS_EmptySet DEF Init, InflightAccounting
  <2>6. FailedMeansGone
    BY DEF Init, FailedMeansGone
  <2> QED
    BY <2>1, <2>2, <2>3, <2>5, <2>6 DEF IInv
<1>2. IInv /\ [Next]_vars => IInv'
  <2> SUFFICES ASSUME IInv, [Next]_vars PROVE IInv'
    OBVIOUS
  <2>1. FlagsOK /\ StateOK /\ RingInv /\ SendInv /\ FailedMeansGone
        /\ rxInflight = Cardinality(InRing) /\ TxCount
    BY TypeParts, AccountingParts DEF IInv
  <2>2. TypeOK'
    <3>1. FlagsOK' /\ StateOK'
      BY <2>1, FlagsStep, StateStep
    <3> QED
      BY <3>1 DEF TypeOK, FlagsOK, StateOK
  <2>3. RingInv'
    BY <2>1, RingStep
  <2>4. SendInv'
    BY <2>1, SendInvStep
  <2>5. InflightAccounting'
    <3>1. (rxInflight = Cardinality(InRing))'
      BY <2>1, RxCountStep
    <3>2. TxCount'
      BY <2>1, <2>4, TxCountStep
    <3> QED
      BY <3>1, <3>2 DEF InflightAccounting, TxCount
  <2>6. FailedMeansGone'
    BY <2>1, FailedStep
  <2> QED
    BY <2>2, <2>3, <2>4, <2>5, <2>6 DEF IInv
<1> QED
  BY <1>1, <1>2, PTL DEF Spec

\* rx_inflight_ and tx_inflight_ count what libusb holds.
THEOREM AccountingHolds == Spec => []InflightAccounting
<1>1. IInv => InflightAccounting
  BY DEF IInv
<1> QED
  BY <1>1, Inductive, PTL

\* Once the event thread is gone no transfer of the ring can be called back, so
\* what stop() frees after the join is free of races.
THEOREM QuietHolds == Spec => []QuietAfterExit
<1>1. IInv => QuietAfterExit
  BY DEF IInv, RingInv
<1> QED
  BY <1>1, Inductive, PTL

\* failed() is never a false alarm.
THEOREM NoFalseAlarm == Spec => []FailedMeansGone
<1>1. IInv => FailedMeansGone
  BY DEF IInv
<1> QED
  BY <1>1, Inductive, PTL

-----------------------------------------------------------------------------
(***************************************************************************)
(* The refinement of DongleSession, for a Dongle whose sends a             *)
(* DongleManager serialises.                                               *)
(***************************************************************************)
Starting == {"alloc", "submit", "init", "sleep"}

\* Which threads are active in which phase of the session.
ThreadInv ==
  /\ owner \in Starting \cup {"up"} => running
  /\ evt = "exited" => ~running
  /\ owner = "stopped" => evt \in {"none", "exited"} /\ heart \in {"none", "exited"}
  /\ heart # "loop" => send[Heart] = "idle"
  /\ heart = "loop" => owner \in {"sleep", "up", "joinHeart"}
  /\ send[Owner] # "idle" => owner \in {"init", "sleep", "up"}
  /\ Serialized => \A th \in Senders : send[th] # "idle" => owner = "up"

LEMMA ThreadStep ==
  ASSUME StateOK, RingInv, ThreadInv, [Next]_vars
  PROVE  ThreadInv'
<1> USE ConstantsOK
    DEF ConstantsOK, StateOK, OwnerPc, RingInv, Early, WithThreads, Starting,
        ThreadInv, Threads
<1>1. ASSUME NEW th \in Threads, SendStep(th) PROVE ThreadInv'
  BY <1>1 DEF SendStep, SendNoMemory, SendCount, SendSubmit
<1>2. ASSUME NEW th \in Senders, ExternalSend(th) PROVE ThreadInv'
  BY <1>2 DEF ExternalSend, SendCheck
<1>3. CASE BeginStart \/ AllocRing \/ AllocFails \/ StartEvents
  BY <1>3 DEF BeginStart, AllocRing, AllocFails, StartEvents
<1>4. CASE InitSend \/ StartHeart \/ SendWifiConnect
  BY <1>4 DEF InitSend, StartHeart, SendWifiConnect, SendCheck
<1>5. CASE HeartBeat \/ HeartExits
  BY <1>5 DEF HeartBeat, HeartExits, SendCheck
<1>6. ASSUME NEW t \in Rx, SubmitRx(t) \/ CancelRx(t) PROVE ThreadInv'
  BY <1>6 DEF SubmitRx, CancelRx
<1>7. ASSUME NEW t \in Rx, RxStep(t) PROVE ThreadInv'
  BY <1>7 DEF RxStep, RxCompletes, RxDies, RxCheck, RxResubmit
<1>8. CASE TxCompletes \/ TxUncount \/ EventsExit
  BY <1>8 DEF TxCompletes, TxUncount, EventsExit
<1>9. CASE BeginStop
  BY <1>9 DEF BeginStop, OwnerFree
<1>10. CASE JoinHeart \/ JoinEventsAndFree
  BY <1>10 DEF JoinHeart, JoinEventsAndFree
<1>11. CASE Unplug \/ UNCHANGED vars
  BY <1>11 DEF Unplug, vars
<1> QED
  BY <1>1, <1>2, <1>3, <1>4, <1>5, <1>6, <1>7, <1>8, <1>9, <1>10, <1>11 DEF Next

SessionStutter == UNCHANGED <<PhaseOf, SinkCallOf, failed, present>>

\* A step that sets failed_ on finding the device gone, or leaves it.
LEMMA NoticeOrStutter ==
  ASSUME UNCHANGED <<PhaseOf, SinkCallOf, present>>,
         failed' = failed \/ (failed' = TRUE /\ ~present),
         PhaseOf \in {"starting", "up", "stopping"}, SinkCallOf # "none"
  PROVE  Session!NoticeRemoval \/ SessionStutter
<1>1. CASE failed' = failed
  BY <1>1 DEF SessionStutter
<1>2. CASE failed' = TRUE /\ ~present
  BY <1>2 DEF Session!NoticeRemoval
<1> QED
  BY <1>1, <1>2

\* Every step of a Dongle is a step of its DongleSession or changes nothing it
\* shows.
LEMMA SessionStep ==
  ASSUME Serialized, FlagsOK, StateOK, RingInv, ThreadInv, [Next]_vars
  PROVE  Session!SessionNext \/ SessionStutter
<1> USE ConstantsOK DEF ConstantsOK, StateOK, OwnerPc, RxState
<1> DEFINE Mapped == Session!SessionNext \/ SessionStutter
<1>1. ASSUME NEW th \in Threads, SendNoMemory(th) \/ SendCount(th) PROVE Mapped
  BY <1>1 DEF SendNoMemory, SendCount, SessionStutter, PhaseOf, SinkCallOf, Stopping
<1>2. ASSUME NEW th \in Threads, SendSubmit(th) PROVE Mapped
  <2>1. UNCHANGED <<PhaseOf, SinkCallOf, present>>
    BY <1>2 DEF SendSubmit, PhaseOf, SinkCallOf, Stopping
  <2>2. failed' = failed \/ (failed' = TRUE /\ ~present)
    BY <1>2 DEF SendSubmit, SubmitResults, FlagsOK
  <2>3. owner \in {"init", "sleep", "up", "joinHeart"}
    BY <1>2 DEF SendSubmit, ThreadInv, Threads
  <2>4. evt # "none"
    BY <2>3 DEF RingInv, WithThreads
  <2>5. PhaseOf \in {"starting", "up", "stopping"} /\ SinkCallOf # "none"
    BY <2>3, <2>4 DEF PhaseOf, SinkCallOf, Stopping
  <2> QED
    BY <2>1, <2>2, <2>5, NoticeOrStutter DEF Session!SessionNext
<1>3. ASSUME NEW th \in Senders, ExternalSend(th) PROVE Mapped
  BY <1>3 DEF ExternalSend, SessionStutter, PhaseOf, SinkCallOf, Stopping
<1>4. CASE BeginStart
  BY <1>4 DEF BeginStart, PhaseOf, SinkCallOf, Stopping, Session!SessionNext,
              Session!BeginStart
<1>5. CASE AllocRing
  BY <1>5 DEF AllocRing, SessionStutter, PhaseOf, SinkCallOf, Stopping
<1>6. ASSUME owner \in {"alloc", "submit"}, owner' = "failed",
             UNCHANGED <<evt, failed, present>>
      PROVE  Mapped
  <2>1. evt = "none"
    BY <1>6 DEF RingInv, Early
  <2> QED
    BY <1>6, <2>1 DEF PhaseOf, SinkCallOf, Stopping, Session!SessionNext,
                      Session!StartFails
<1>7. CASE AllocFails
  BY <1>6, <1>7 DEF AllocFails
<1>8. ASSUME NEW t \in Rx, SubmitRx(t) PROVE Mapped
  <2>1. CASE owner' = owner
    BY <1>8, <2>1 DEF SubmitRx, SessionStutter, PhaseOf, SinkCallOf, Stopping
  <2>2. CASE owner' = "failed"
    BY <1>6, <1>8, <2>2 DEF SubmitRx
  <2> QED
    BY <1>8, <2>1, <2>2 DEF SubmitRx
<1>9. CASE StartEvents
  <2>1. evt = "none"
    BY <1>9 DEF StartEvents, RingInv, Early
  <2> QED
    BY <1>9, <2>1 DEF StartEvents, PhaseOf, SinkCallOf, Stopping,
       Session!SessionNext, Session!EventThreadStarts
<1>10. CASE InitSend \/ StartHeart \/ HeartBeat \/ HeartExits
  BY <1>10 DEF InitSend, StartHeart, HeartBeat, HeartExits, SessionStutter,
     PhaseOf, SinkCallOf, Stopping
<1>11. CASE SendWifiConnect
  <2>1. evt # "none"
    BY <1>11 DEF SendWifiConnect, RingInv, WithThreads
  <2> QED
    BY <1>11, <2>1 DEF SendWifiConnect, PhaseOf, SinkCallOf, Stopping,
       Session!SessionNext, Session!StartSucceeds
<1>12. ASSUME NEW t \in Rx, CancelRx(t) PROVE Mapped
  BY <1>12 DEF CancelRx, SessionStutter, PhaseOf, SinkCallOf, Stopping
<1>13. ASSUME NEW t \in Rx, RxCompletes(t) PROVE Mapped
  BY <1>13 DEF RxCompletes, PhaseOf, SinkCallOf, Stopping, Session!SessionNext,
     Session!EnterSink
<1>14. ASSUME NEW t \in Rx, RxCheck(t) PROVE Mapped
  BY <1>14 DEF RxCheck, PhaseOf, SinkCallOf, Stopping, Session!SessionNext,
     Session!LeaveSink
<1>15. ASSUME evt \in {"events", "resubmit"}, evt' = "events", owner' = owner,
              present' = present,
              failed' = failed \/ (failed' = TRUE /\ ~present)
       PROVE  Mapped
  <2>1. UNCHANGED <<PhaseOf, SinkCallOf, present>>
    BY <1>15 DEF PhaseOf, SinkCallOf, Stopping
  <2>2. owner \in WithThreads
    BY <1>15 DEF RingInv, ThreadInv, Early, WithThreads
  <2>3. PhaseOf \in {"starting", "up", "stopping"} /\ SinkCallOf # "none"
    BY <1>15, <2>2 DEF PhaseOf, SinkCallOf, Stopping, WithThreads
  <2> QED
    BY <1>15, <2>1, <2>3, NoticeOrStutter DEF Session!SessionNext
<1>16. ASSUME NEW t \in Rx, RxDies(t) PROVE Mapped
  <2>1. failed' = failed \/ (failed' = TRUE /\ ~present)
    <3>1. PICK d \in Deaths(t) : failed' = (failed \/ RaisesFailed(d))
      BY <1>16 DEF RxDies
    <3> QED
      BY <3>1 DEF FlagsOK
  <2> QED
    BY <1>15, <1>16, <2>1 DEF RxDies
<1>17. ASSUME NEW t \in Rx, RxResubmit(t) PROVE Mapped
  <2>1. failed' = failed \/ (failed' = TRUE /\ ~present)
    BY <1>17 DEF RxResubmit, SubmitResults, FlagsOK
  <2> QED
    BY <1>15, <1>17, <2>1 DEF RxResubmit
<1>18. CASE TxCompletes \/ TxUncount
  BY <1>18 DEF TxCompletes, TxUncount, SessionStutter, PhaseOf, SinkCallOf, Stopping
<1>19. CASE EventsExit
  <2>1. owner \in {"joinHeart", "cancel", "joinEvents"}
    BY <1>19 DEF EventsExit, RingInv, ThreadInv, Early, Starting
  <2> QED
    BY <1>19, <2>1 DEF EventsExit, PhaseOf, SinkCallOf, Stopping,
       Session!SessionNext, Session!EventThreadExits
<1>20. CASE BeginStop
  <2>1. CASE owner = "up"
    <3>1. owner' = "joinHeart"
      BY <1>20, <2>1 DEF BeginStop, ThreadInv
    <3> QED
      BY <1>20, <2>1, <3>1 DEF BeginStop, PhaseOf, SinkCallOf, Stopping,
         Session!SessionNext, Session!BeginStop
  <2>2. CASE owner = "failed"
    <3>1. owner' = "stopped"
      BY <1>20, <2>2 DEF BeginStop, RingInv
    <3> QED
      BY <1>20, <2>2, <3>1 DEF BeginStop, PhaseOf, SinkCallOf, Stopping,
         Session!SessionNext, Session!StopBroken
  <2> QED
    BY <1>20, <2>1, <2>2 DEF BeginStop, OwnerFree
<1>21. CASE JoinHeart
  BY <1>21 DEF JoinHeart, SessionStutter, PhaseOf, SinkCallOf, Stopping
<1>22. CASE JoinEventsAndFree
  BY <1>22 DEF JoinEventsAndFree, PhaseOf, SinkCallOf, Stopping,
     Session!SessionNext, Session!EndStop
<1>23. CASE Unplug
  BY <1>23 DEF Unplug, PhaseOf, SinkCallOf, Stopping, Session!SessionNext,
     Session!Unplug
<1>24. CASE UNCHANGED vars
  BY <1>24 DEF vars, SessionStutter, PhaseOf, SinkCallOf, Stopping
<1> QED
  BY <1>1, <1>2, <1>3, <1>4, <1>5, <1>7, <1>8, <1>9, <1>10, <1>11, <1>12, <1>13,
     <1>14, <1>16, <1>17, <1>18, <1>19, <1>20, <1>21, <1>22, <1>23, <1>24
     DEF Next, SendStep, RxStep

\* A Dongle whose sends are serialised with start() and stop() implements
\* DongleSession: what the supervisor's model assumes of a session is what
\* start(), stop(), the event thread and the heartbeat do.
THEOREM SessionRefinement ==
  ASSUME Serialized
  PROVE  Spec => SessionSafety
<1>1. Init => Session!SessionInit
  BY DEF Init, Session!SessionInit, PhaseOf, SinkCallOf, Stopping
<1>2. Init => ThreadInv
  BY DEF Init, ThreadInv, Starting, Threads
<1>3. IInv => FlagsOK /\ StateOK /\ RingInv
  BY TypeParts DEF IInv
<1>4. IInv /\ ThreadInv /\ [Next]_vars => ThreadInv'
  BY <1>3, ThreadStep
<1>5. IInv /\ ThreadInv /\ [Next]_vars => [Session!SessionNext]_(Session!svars)
  BY <1>3, SessionStep DEF SessionStutter, Session!svars
<1> QED
  BY <1>1, <1>2, <1>4, <1>5, Inductive, PTL
     DEF Spec, SessionSafety, Session!SessionSafety
=============================================================================
