--------------------------- MODULE DeliveryProofs ---------------------------
(***************************************************************************)
(* Proofs about Delivery.tla for every number of lidars and every capacity.*)
(***************************************************************************)
EXTENDS Delivery, TLAPS

NothingBuffered == Prompt => \A l \in Lidars : buffered[l] = 0

IInv == TypeOK /\ NothingBuffered /\ CountBinary

WakeInv == IInv /\ EveryOwedCovered

LEMMA InitIInv == Init => IInv
<1> SUFFICES ASSUME Init PROVE IInv
  OBVIOUS
<1>1. 0 \in Lidars
  BY DeliveryAssumption DEF Lidars
<1>2. TypeOK
  <2>1. request_exit \in BOOLEAN /\ exit_signal \in BOOLEAN
    BY Zenon DEF Init
  <2>2. path \in {"pcd", "imu"}
    BY DeliveryAssumption DEF Init
  <2>3. delayed \in BOOLEAN
    <3>1. delayed \in StoreBuffers \/ delayed \in {FALSE}
      BY Zenon DEF Init
    <3> QED
      BY <3>1, DeliveryAssumption, Zenon
  <2> QED
    BY <1>1, <2>1, <2>2, <2>3 DEF Init, TypeOK
<1>3. NothingBuffered /\ CountBinary
  BY DEF Init, NothingBuffered, CountBinary
<1> QED
  BY <1>2, <1>3 DEF IInv

(* An entry is popped from a queue that is not empty. *)
LEMMA PopTypes ==
  ASSUME TypeOK, i \in Lidars, queue[i] > 0, Pop
  PROVE  queue' \in [Lidars -> Nat] /\ early' \in [Lidars -> Nat]
BY DEF TypeOK, Pop

LEMMA StepTypeOK ==
  ASSUME TypeOK, Next
  PROVE  TypeOK'
<1> USE DEF producer, consumer, driver, fixed
<1>1. /\ request_exit' \in BOOLEAN /\ exit_signal' \in BOOLEAN
      /\ delayed' \in BOOLEAN /\ path' = path
  BY Zenon DEF TypeOK, Next, Arrival, Push, Refuse, Notify, TestNotEmpty,
     TestCount, Signal, Drain, Poll, StartPolling, CheckExit, WaitSemaphore, Scan,
     LeaveLidar, TakeTurn, PublishOne, LeaveInner, TestFuture, SetSampling,
     RequestExit, SetExitSignal
<1>2. ASSUME Arrival PROVE TypeOK'
  BY <1>1, <1>2 DEF TypeOK, Arrival, Push, Refuse
<1>3. ASSUME Notify PROVE TypeOK'
  BY <1>1, <1>3 DEF TypeOK, Notify, TestNotEmpty, TestCount, Signal
<1>4. ASSUME NEW l \in Lidars, Drain(l) PROVE TypeOK'
  BY <1>1, <1>4 DEF TypeOK, Drain
<1>5. ASSUME Poll PROVE TypeOK'
  <2>1. CASE StartPolling \/ CheckExit \/ WaitSemaphore
    BY <1>1, <2>1 DEF TypeOK, StartPolling, CheckExit, WaitSemaphore
  <2>2. CASE Scan
    BY <1>1, <2>2 DEF TypeOK, Scan
  <2>3. CASE LeaveLidar \/ LeaveInner \/ TestFuture
    BY <1>1, <2>3 DEF TypeOK, LeaveLidar, LeaveInner, TestFuture
  <2>4. CASE TakeTurn
    <3>1. i \in Lidars /\ queue[i] > 0
      BY <2>4 DEF TypeOK, TakeTurn, PublishImuData, PublishPclMsg
    <3>2. queue' \in [Lidars -> Nat] /\ early' \in [Lidars -> Nat]
      BY <2>4, <3>1, PopTypes DEF TakeTurn, PublishImuData, PublishPclMsg, TypeOK
    <3> QED
      BY <1>1, <2>4, <3>1, <3>2 DEF TypeOK, TakeTurn, PublishImuData, PublishPclMsg
  <2>5. CASE PublishOne
    <3>1. queue' \in [Lidars -> Nat] /\ early' \in [Lidars -> Nat]
      BY <2>5, PopTypes DEF PublishOne, TypeOK
    <3> QED
      BY <1>1, <2>5, <3>1 DEF TypeOK, PublishOne
  <2> QED
    BY <1>5, <2>1, <2>2, <2>3, <2>4, <2>5 DEF Poll
<1>6. ASSUME NEW l \in Lidars, SetSampling(l) PROVE TypeOK'
  BY <1>1, <1>6 DEF TypeOK, SetSampling, OwnView
<1>7. ASSUME RequestExit \/ SetExitSignal PROVE TypeOK'
  BY <1>1, <1>7 DEF TypeOK, RequestExit, SetExitSignal
<1> QED
  BY <1>2, <1>3, <1>4, <1>5, <1>6, <1>7 DEF Next

(* The path and the kind of processor never change. *)
LEMMA KindFixed ==
  ASSUME Next
  PROVE  path' = path /\ delayed' = delayed /\ Prompt' = Prompt
<1>1. path' = path /\ delayed' = delayed
  BY Zenon DEF fixed, producer, consumer, driver, Next,
     Arrival, Push, Refuse, Notify, TestNotEmpty, TestCount, Signal, Drain, Poll,
     StartPolling, CheckExit, WaitSemaphore, Scan, LeaveLidar, TakeTurn,
     PublishOne, LeaveInner, TestFuture, SetSampling, RequestExit, SetExitSignal
<1> QED
  BY <1>1, Zenon DEF Prompt

LEMMA StepBuffered ==
  ASSUME IInv, Next
  PROVE  NothingBuffered'
<1> SUFFICES ASSUME Prompt PROVE \A l \in Lidars : buffered'[l] = 0
  BY KindFixed DEF NothingBuffered
<1>1. \A l \in Lidars : buffered[l] = 0
  BY DEF IInv, NothingBuffered
<1>2. buffered' = buffered
  BY <1>1 DEF Prompt, producer, consumer, driver, fixed, Next,
     Arrival, Push, Refuse, Notify, TestNotEmpty, TestCount, Signal, Drain, Poll,
     StartPolling, CheckExit, WaitSemaphore, Scan, LeaveLidar, TakeTurn,
     PublishOne, LeaveInner, TestFuture, SetSampling, RequestExit, SetExitSignal
<1> QED
  BY <1>1, <1>2

LEMMA StepCountBinary ==
  ASSUME IInv, Next
  PROVE  CountBinary'
<1>1. count \in Nat /\ CountBinary
  BY DEF IInv, TypeOK
<1>2. CASE Notify
  BY <1>1, <1>2 DEF CountBinary, Notify, TestNotEmpty, TestCount, Signal
<1>3. CASE Arrival
  BY <1>1, <1>3 DEF CountBinary, Arrival, Push, Refuse
<1>4. CASE Poll
  <2>1. ppc' = ppc /\ (count' = count \/ count' = count - 1)
    BY <1>4 DEF producer, Poll, StartPolling, CheckExit, WaitSemaphore, Scan,
       LeaveLidar, TakeTurn, PublishOne, LeaveInner, TestFuture
  <2> QED
    BY <1>1, <2>1 DEF CountBinary
<1>5. CASE \/ \E l \in Lidars : Drain(l) \/ SetSampling(l)
           \/ RequestExit \/ SetExitSignal
  <2>1. ppc' = ppc /\ count' = count
    BY <1>5 DEF producer, Drain, SetSampling, RequestExit, SetExitSignal
  <2> QED
    BY <1>1, <2>1 DEF CountBinary
<1> QED
  BY <1>2, <1>3, <1>4, <1>5 DEF Next

LEMMA StepIInv == IInv /\ [Next]_vars => IInv'
<1> SUFFICES ASSUME IInv, [Next]_vars PROVE IInv'
  OBVIOUS
<1>1. CASE Next
  <2>1. TypeOK'
    BY <1>1, StepTypeOK DEF IInv
  <2> QED
    BY <1>1, <2>1, StepBuffered, StepCountBinary DEF IInv
<1>2. CASE UNCHANGED vars
  BY <1>2 DEF vars, IInv, TypeOK, NothingBuffered, CountBinary, Prompt
<1> QED
  BY <1>1, <1>2

(* Every variable keeps its type, whatever the number of lidars. *)
THEOREM TypeCorrect == Spec => []TypeOK
<1>1. IInv => TypeOK
  BY DEF IInv
<1> QED
  BY <1>1, InitIInv, StepIInv, PTL DEF Spec

(* The counting semaphore stays binary (lds.cpp:187, 192, 119). *)
THEOREM SemaphoreBinary == Spec => []CountBinary
<1>1. IInv => CountBinary
  BY DEF IInv
<1> QED
  BY <1>1, InitIInv, StepIInv, PTL DEF Spec

-----------------------------------------------------------------------------
(* No wake-up is lost.                                                      *)

LEMMA InitWake == Init => EveryOwedCovered
BY DEF Init, EveryOwedCovered, Owed

LEMMA StepWake ==
  ASSUME IInv, EveryOwedCovered, Next
  PROVE  EveryOwedCovered'
<1> SUFFICES ASSUME Prompt, NEW l \in Lidars, Owed(l)' PROVE Covered(l)'
  BY KindFixed DEF EveryOwedCovered
<1>1. /\ buffered[l] = 0 /\ buffered'[l] = 0 /\ OwnView(l) = queue[l]
      /\ OwnView(l)' = queue'[l] /\ l \in Nat
      /\ queue[l] \in Nat /\ early[l] \in Nat
      /\ lidar \in Lidars /\ i \in Nat /\ count \in Nat
  <2>1. NothingBuffered /\ NothingBuffered' /\ TypeOK /\ TypeOK' /\ Prompt'
    BY StepBuffered, StepTypeOK, KindFixed DEF IInv
  <2>2. /\ queue[l] \in Nat /\ early[l] \in Nat /\ queue'[l] \in Nat
        /\ lidar \in Lidars /\ i \in Nat /\ count \in Nat
    BY <2>1 DEF TypeOK
  <2>3. buffered[l] = 0 /\ buffered'[l] = 0
    BY <2>1 DEF NothingBuffered
  <2> QED
    BY <2>2, <2>3 DEF OwnView, Lidars
<1>2. Owed(l) => Covered(l)
  BY DEF EveryOwedCovered
<1>3. /\ connect_state'[l] = "sampling" /\ queue'[l] > early'[l]
  BY <1>1 DEF Owed
<1> USE DEF producer, consumer, driver, fixed
<1>4. CASE Arrival
  <2>1. PICK k \in Lidars : Push(k) \/ Refuse(k)
    BY <1>4 DEF Arrival
  <2>2. CASE Push(k) /\ k = l
    BY <2>2 DEF Push, Covered
  <2>3. CASE Push(k) /\ k # l
    <3>1. queue'[l] = queue[l] /\ early' = early /\ connect_state' = connect_state
      BY <2>3, <1>1 DEF Push, IInv, TypeOK
    <3>2. Covered(l)
      BY <3>1, <1>1, <1>2, <1>3 DEF Owed
    <3> QED
      BY <2>3, <3>2 DEF Push, Covered
  <2>4. CASE Refuse(k)
    BY <2>4 DEF Refuse, Covered
  <2> QED
    BY <2>1, <2>2, <2>3, <2>4
<1>5. CASE Notify
  <2>1. Owed(l)
    BY <1>1, <1>3, <1>5 DEF Notify, TestNotEmpty, TestCount, Signal, Owed
  <2>2. CASE TestNotEmpty
    BY <1>1, <1>2, <2>1, <2>2 DEF TestNotEmpty, Covered, Owed
  <2>3. CASE TestCount
    BY <1>1, <2>3 DEF TestCount, Covered
  <2>4. CASE Signal
    BY <1>1, <2>4 DEF Signal, Covered
  <2> QED
    BY <1>5, <2>2, <2>3, <2>4 DEF Notify
<1>6. ASSUME NEW k \in Lidars, Drain(k) PROVE FALSE
  BY <1>6 DEF Drain, IInv, NothingBuffered, TypeOK
<1>7. CASE StartPolling \/ CheckExit \/ TestFuture
  <2>1. Owed(l)
    BY <1>1, <1>3, <1>7 DEF StartPolling, CheckExit, TestFuture, Owed
  <2> QED
    BY <1>2, <1>7, <2>1 DEF StartPolling, CheckExit, TestFuture, Covered
<1>8. CASE WaitSemaphore
  BY <1>1, <1>8 DEF WaitSemaphore, Covered
<1>9. CASE Scan
  <2>1. Owed(l) /\ connect_state[l] = "sampling"
    BY <1>1, <1>3, <1>9 DEF Scan, Owed
  <2>2. i \notin Lidars => i > l
    BY <1>1, DeliveryAssumption DEF Lidars
  <2> QED
    BY <1>1, <1>2, <1>9, <2>1, <2>2 DEF Scan, Covered
<1>10. CASE LeaveLidar
  <2>1. Owed(l)
    BY <1>1, <1>3, <1>10 DEF LeaveLidar, Owed
  <2>2. i = l => request_exit
    BY <1>1, <1>10, <2>1 DEF LeaveLidar, Owed
  <2> QED
    BY <1>1, <1>2, <1>10, <2>1, <2>2 DEF LeaveLidar, Covered
<1>11. CASE TakeTurn \/ PublishOne
  <2>1. Owed(l)
    <3>1. i \in Lidars /\ queue \in [Lidars -> Nat] /\ early \in [Lidars -> Nat]
      BY <1>11 DEF TakeTurn, PublishImuData, PublishPclMsg, PublishOne, IInv, TypeOK
    <3>2. connect_state' = connect_state /\ (Pop \/ UNCHANGED <<queue, early>>)
      BY <1>11 DEF TakeTurn, PublishImuData, PublishPclMsg, PublishOne
    <3>3. queue[l] > early[l]
      BY <1>1, <1>3, <3>1, <3>2 DEF Pop
    <3> QED
      BY <1>1, <1>3, <3>2, <3>3 DEF Owed
  <2> QED
    BY <1>2, <1>11, <2>1 DEF TakeTurn, PublishImuData, PublishPclMsg, PublishOne, Covered
<1>12. CASE LeaveInner
  <2>1. Owed(l)
    BY <1>1, <1>3, <1>12 DEF LeaveInner, Owed
  <2> QED
    BY <1>2, <1>12, <2>1 DEF LeaveInner, Covered
<1>13. ASSUME NEW k \in Lidars, SetSampling(k) PROVE Covered(l)'
  <2>1. k # l
    BY <1>1, <1>3, <1>13 DEF SetSampling, IInv, TypeOK
  <2>2. Owed(l)
    BY <1>1, <1>3, <1>13, <2>1 DEF SetSampling, Owed, IInv, TypeOK
  <2> QED
    BY <1>2, <1>13, <2>2 DEF SetSampling, Covered
<1>14. CASE RequestExit \/ SetExitSignal
  <2>1. Owed(l)
    BY <1>1, <1>3, <1>14 DEF RequestExit, SetExitSignal, Owed
  <2> QED
    BY <1>2, <1>14, <2>1 DEF RequestExit, SetExitSignal, Covered
<1> QED
  BY <1>4, <1>5, <1>6, <1>7, <1>8, <1>9, <1>10, <1>11, <1>12, <1>13, <1>14
  DEF Next, Poll

(* Wherever a push is visible at once, an owed entry always has somebody who
   will look at its queue (lds.cpp:184-195, 117-122; lddc.cpp:416-465). *)
THEOREM OwedIsCovered == Spec => []EveryOwedCovered
<1>1. WakeInv /\ [Next]_vars => WakeInv'
  <2> SUFFICES ASSUME WakeInv, [Next]_vars PROVE WakeInv'
    OBVIOUS
  <2>1. IInv'
    BY StepIInv DEF WakeInv
  <2>2. CASE Next
    BY <2>1, <2>2, StepWake DEF WakeInv
  <2>3. CASE UNCHANGED vars
    BY <2>1, <2>3 DEF WakeInv, vars, EveryOwedCovered, Owed, Covered, OwnView, Prompt
  <2> QED
    BY <2>2, <2>3
<1>2. Init => WakeInv
  BY InitIInv, InitWake DEF WakeInv
<1>3. WakeInv => EveryOwedCovered
  BY DEF WakeInv
<1> QED
  BY <1>1, <1>2, <1>3, PTL DEF Spec

(* Wherever a push is visible at once, no wake-up is lost although the count is
   read without the mutex (lds.cpp:184-195, 118-122). *)
THEOREM NoWakeupLost == Spec => []NoLostWakeup
<1>1. EveryOwedCovered => NoLostWakeup
  BY DEF EveryOwedCovered, NoLostWakeup, Blocked, Covered
<1> QED
  BY <1>1, OwedIsCovered, PTL

=============================================================================
