------------------------------ MODULE Delivery ------------------------------
(***************************************************************************)
(* How a frame or an IMU sample gets from the thread that produces it to   *)
(* the thread that publishes it: Lds::PushLidarData and                    *)
(* Lds::StorageImuData (src/lds.cpp), the counting semaphore               *)
(* (src/comm/semaphore.cpp), Lddc::DistributePointCloudData and            *)
(* DistributeImuData (src/lddc.cpp), the poll threads                      *)
(* (src/livox_ros_driver2.cpp) and ~DriverNode (src/driver_node.cpp).      *)
(*                                                                         *)
(* There are two such paths with the same protocol; path says which one:   *)
(*  "pcd"  one Ldq ring per lidar; a push is the store of wr_idx, which a  *)
(*         processor with a store buffer may publish late (delayed);       *)
(*         a full ring refuses the frame; the inner loop of                *)
(*         PublishCustomPointcloud empties the ring without looking at the *)
(*         exit request;                                                   *)
(*  "imu"  one std::list per lidar behind a mutex: a push is visible at    *)
(*         once and never refused; one sample is taken per turn.           *)
(* A queue is the number of entries in it: Ldq.tla shows what is in them.  *)
(***************************************************************************)
EXTENDS Integers

CONSTANTS
  LidarCount,  (* lidar_count_; kMaxSourceLidar in the code               *)
  Cap,         (* size of a ring; bounds the exploration of the lists     *)
  Paths,       (* the paths considered: "pcd", "imu" or both              *)
  StoreBuffers (* subset of BOOLEAN: may stores of wr_idx be delayed      *)

ASSUME DeliveryAssumption ==
  /\ LidarCount \in Nat \ {0}
  /\ Cap \in Nat \ {0}
  /\ Paths \subseteq {"pcd", "imu"}
  /\ StoreBuffers \subseteq BOOLEAN

Lidars == 0 .. LidarCount - 1

VARIABLES
  path, delayed,  (* the path and the kind of processor; never change      *)
  queue,          (* entries of each lidar's queue, as every thread sees   *)
  buffered,       (* pushes still in the producer's store buffer           *)
  connect_state,  (* "off" or "sampling"                                   *)
  count,          (* pcd_semaphore_ or imu_semaphore_                      *)
  xfer_format,    (* the launch parameter: "custom" or "pcl"               *)
  request_exit,   (* Lds::request_exit_                                    *)
  exit_signal,    (* DriverNode::exit_signal_                              *)
  ppc, lidar,     (* producer: where it is, and the lidar it pushes for    *)
  cpc, i,         (* poll thread: where it is, and its loop index          *)
  early           (* history: entries queued before the lidar was sampling *)

vars == <<path, delayed, queue, buffered, connect_state, count, xfer_format,
          request_exit, exit_signal, ppc, lidar, cpc, i, early>>

producer == <<buffered, ppc, lidar>>
consumer == <<cpc, i, early>>
fixed    == <<path, delayed, xfer_format>>
driver   == <<connect_state, request_exit, exit_signal, fixed>>

(* What the producer itself sees of a queue. *)
OwnView(l) == queue[l] + buffered[l]

-----------------------------------------------------------------------------
(* The queues and the semaphore start empty, and the poll thread sleeps.  The
   mutex of the IMU list leaves nothing in a store buffer.                   *)
Init ==
  /\ path \in Paths
  /\ delayed \in IF path = "pcd" THEN StoreBuffers ELSE {FALSE}
  /\ queue = [l \in Lidars |-> 0]
  /\ buffered = [l \in Lidars |-> 0]
  /\ connect_state = [l \in Lidars |-> "off"]
  /\ count = 0
  /\ xfer_format \in IF path = "pcd" THEN {"custom", "pcl"} ELSE {"custom"}
  /\ request_exit = FALSE
  /\ exit_signal = FALSE
  /\ ppc = "idle"
  /\ lidar = 0
  /\ cpc = "sleep"
  /\ i = 0
  /\ early = [l \in Lidars |-> 0]

-----------------------------------------------------------------------------
(* Producer: PushLidarData or StorageImuData.                               *)

Full(l) == OwnView(l) >= Cap

(* The entry is stored; wr_idx may stay in the store buffer for a while. *)
Push(l) ==
  /\ ppc = "idle"
  /\ ~Full(l)
  /\ IF path = "pcd" /\ delayed
       THEN buffered' = [buffered EXCEPT ![l] = @ + 1] /\ UNCHANGED queue
       ELSE queue' = [queue EXCEPT ![l] = @ + 1] /\ UNCHANGED buffered
  /\ lidar' = l
  /\ ppc' = "empty"
  /\ UNCHANGED <<count, consumer, driver>>

(* Mutated form of Refuse: a full ring does not wake the poll thread. *)
Refuse_Silent(l) ==
  /\ path = "pcd"
  /\ ppc = "idle"
  /\ Full(l)
  /\ lidar' = l
  /\ UNCHANGED <<ppc, queue, buffered, count, consumer, driver>>

(* The ring is full: the frame is lost, but the poll thread is woken. *)
Refuse(l) ==
  /\ path = "pcd"
  /\ ppc = "idle"
  /\ Full(l)
  /\ lidar' = l
  /\ ppc' = "count"
  /\ UNCHANGED <<queue, buffered, count, consumer, driver>>

(* if (!QueueIsEmpty(queue)): the poll thread may have been faster. *)
TestNotEmpty ==
  /\ ppc = "empty"
  /\ ppc' = IF OwnView(lidar) = 0 THEN "idle" ELSE "count"
  /\ UNCHANGED <<queue, buffered, lidar, count, consumer, driver>>

(* Mutated form of TestCount: the boundary is one too low. *)
TestCount_OffByOne ==
  /\ ppc = "count"
  /\ ppc' = IF count < 0 THEN "signal" ELSE "idle"
  /\ UNCHANGED <<queue, buffered, lidar, count, consumer, driver>>

(* Mutated form of TestCount: the semaphore is signalled for every frame. *)
TestCount_Always ==
  /\ ppc = "count"
  /\ ppc' = "signal"
  /\ UNCHANGED <<queue, buffered, lidar, count, consumer, driver>>

(* GetCount() reads the count without the mutex. *)
TestCount ==
  /\ ppc = "count"
  /\ ppc' = IF count <= 0 THEN "signal" ELSE "idle"
  /\ UNCHANGED <<queue, buffered, lidar, count, consumer, driver>>

(* Semaphore::Signal.  Taking the mutex drains the store buffer first. *)
Signal ==
  /\ ppc = "signal"
  /\ \A l \in Lidars : buffered[l] = 0
  /\ count' = count + 1
  /\ ppc' = "idle"
  /\ UNCHANGED <<queue, buffered, lidar, consumer, driver>>

(* The processor publishes a delayed store of wr_idx. *)
Drain(l) ==
  /\ buffered[l] > 0
  /\ buffered' = [buffered EXCEPT ![l] = @ - 1]
  /\ queue' = [queue EXCEPT ![l] = @ + 1]
  /\ UNCHANGED <<ppc, lidar, count, consumer, driver>>

-----------------------------------------------------------------------------
(* Poll thread: PointCloudDataPollThread or ImuDataPollThread.              *)

(* The three seconds before the first turn. *)
StartPolling ==
  /\ cpc = "sleep"
  /\ cpc' = "loop"
  /\ UNCHANGED <<queue, count, i, early, producer, driver>>

(* Distribute...Data returns at once when the exit has been requested. *)
CheckExit ==
  /\ cpc = "loop"
  /\ cpc' = IF request_exit THEN "future" ELSE "wait"
  /\ UNCHANGED <<queue, count, i, early, producer, driver>>

(* Mutated form of WaitSemaphore: the scan begins with the second lidar. *)
WaitSemaphore_FromOne ==
  /\ cpc = "wait"
  /\ count > 0
  /\ count' = count - 1
  /\ cpc' = "scan"
  /\ i' = 1
  /\ UNCHANGED <<queue, early, producer, driver>>

(* Mutated form of WaitSemaphore: a spurious wake-up counts as a signal. *)
WaitSemaphore_Spurious ==
  /\ cpc = "wait"
  /\ count' = count - 1
  /\ cpc' = "scan"
  /\ i' = 0
  /\ UNCHANGED <<queue, early, producer, driver>>

(* Semaphore::Wait, and the start of the loop over the lidars. *)
WaitSemaphore ==
  /\ cpc = "wait"
  /\ count > 0
  /\ count' = count - 1
  /\ cpc' = "scan"
  /\ i' = 0
  /\ UNCHANGED <<queue, early, producer, driver>>

(* The loop visits the lidars that are sampling, in the order of their index. *)
Scan ==
  /\ cpc = "scan"
  /\ \/ /\ i \notin Lidars
        /\ cpc' = "future"
        /\ UNCHANGED i
     \/ /\ i \in Lidars
        /\ connect_state[i] # "sampling"
        /\ i' = i + 1
        /\ UNCHANGED cpc
     \/ /\ i \in Lidars
        /\ connect_state[i] = "sampling"
        /\ cpc' = "outer"
        /\ UNCHANGED i
  /\ UNCHANGED <<queue, count, early, producer, driver>>

(* Nothing left for this lidar, or the driver is going down. *)
LeaveLidar ==
  /\ cpc = "outer"
  /\ request_exit \/ queue[i] = 0
  /\ cpc' = "scan"
  /\ i' = i + 1
  /\ UNCHANGED <<queue, count, early, producer, driver>>

Pop ==
  /\ queue' = [queue EXCEPT ![i] = @ - 1]
  /\ early' = [early EXCEPT ![i] = IF @ > 0 THEN @ - 1 ELSE 0]

(* One sample is taken; whether the stamp filter lets it pass is left to
   StampFilter.tla. *)
PublishImuData ==
  /\ Pop
  /\ UNCHANGED cpc

(* Not supported in the ROS 2 build: nothing is taken from the queue. *)
PublishPclMsg == UNCHANGED <<cpc, queue, early>>

(* while (!IsRequestExit() && !QueueIsEmpty(...)) around the publish functions. *)
TakeTurn ==
  /\ cpc = "outer"
  /\ ~request_exit
  /\ queue[i] > 0
  /\ \/ /\ path = "imu"
        /\ PublishImuData
     \/ /\ path = "pcd" /\ xfer_format = "custom"
        /\ cpc' = "inner"
        /\ UNCHANGED <<queue, early>>
     \/ /\ path = "pcd" /\ xfer_format = "pcl"
        /\ PublishPclMsg
  /\ UNCHANGED <<i, count, producer, driver>>

(* while (!QueueIsEmpty(queue)) of PublishPointcloud2 and
   PublishCustomPointcloud. *)
PublishOne ==
  /\ cpc = "inner"
  /\ queue[i] > 0
  /\ Pop
  /\ UNCHANGED <<cpc, i, count, producer, driver>>

LeaveInner ==
  /\ cpc = "inner"
  /\ queue[i] = 0
  /\ cpc' = "outer"
  /\ UNCHANGED <<i, queue, count, early, producer, driver>>

(* future_.wait_for(0) at the end of a turn. *)
TestFuture ==
  /\ cpc = "future"
  /\ cpc' = IF exit_signal THEN "done" ELSE "loop"
  /\ UNCHANGED <<i, queue, count, early, producer, driver>>

-----------------------------------------------------------------------------
(* The rest of the driver.                                                  *)

(* A configuration callback finds its lidar ready (LidarConfig.tla): what is
   queued already was queued too early to be noticed. *)
SetSampling(l) ==
  /\ connect_state[l] = "off"
  /\ connect_state' = [connect_state EXCEPT ![l] = "sampling"]
  /\ early' = [early EXCEPT ![l] = OwnView(l)]
  /\ UNCHANGED <<fixed, request_exit, exit_signal, queue, count, cpc, i, producer>>

(* ~DriverNode sets the flag, then the promise, then joins the poll threads
   while the lidars go on sending. *)
RequestExit ==
  /\ ~request_exit
  /\ request_exit' = TRUE
  /\ UNCHANGED <<fixed, connect_state, exit_signal, queue, count, producer, consumer>>

(* Mutated form of SetExitSignal: the promise is never set. *)
SetExitSignal_Never ==
  /\ request_exit /\ ~exit_signal
  /\ UNCHANGED vars

SetExitSignal ==
  /\ request_exit /\ ~exit_signal
  /\ exit_signal' = TRUE
  /\ UNCHANGED <<fixed, connect_state, request_exit, queue, count, producer, consumer>>

-----------------------------------------------------------------------------
Arrival == \E l \in Lidars : Push(l) \/ Refuse(l)

Notify == TestNotEmpty \/ TestCount \/ Signal

Poll == \/ StartPolling \/ CheckExit \/ WaitSemaphore \/ Scan \/ LeaveLidar
        \/ TakeTurn \/ PublishOne \/ LeaveInner \/ TestFuture

Next ==
  \/ Arrival
  \/ Notify
  \/ \E l \in Lidars : Drain(l)
  \/ Poll
  \/ \E l \in Lidars : SetSampling(l)
  \/ RequestExit
  \/ SetExitSignal

(* The operating system runs every thread that can run and the processor
   empties its store buffer.  Nothing makes a lidar send data, makes it ready,
   or makes the user quit. *)
Fairness ==
  /\ WF_vars(Notify)
  /\ WF_vars(Poll)
  /\ \A l \in Lidars : WF_vars(Drain(l))
  /\ WF_vars(SetExitSignal)

Spec == Init /\ [][Next]_vars /\ Fairness

-----------------------------------------------------------------------------
(* Properties.                                                              *)

TypeOK ==
  /\ path \in {"pcd", "imu"}
  /\ delayed \in BOOLEAN
  /\ queue \in [Lidars -> Nat]
  /\ buffered \in [Lidars -> Nat]
  /\ connect_state \in [Lidars -> {"off", "sampling"}]
  /\ count \in Nat
  /\ xfer_format \in {"custom", "pcl"}
  /\ request_exit \in BOOLEAN
  /\ exit_signal \in BOOLEAN
  /\ ppc \in {"idle", "empty", "count", "signal"}
  /\ lidar \in Lidars
  /\ cpc \in {"sleep", "loop", "wait", "scan", "outer", "inner", "future", "done"}
  /\ i \in Nat
  /\ cpc \in {"outer", "inner"} => i \in Lidars
  /\ early \in [Lidars -> Nat]

(* An entry that was queued while its lidar was sampling is waiting. *)
Owed(l) == connect_state[l] = "sampling" /\ OwnView(l) > early[l]

(* Without a store buffer, or behind the mutex of the IMU list, a push is seen
   at once. *)
Prompt == path = "imu" \/ ~delayed

Blocked == cpc = "wait" /\ count = 0

(* The wake-up protocol loses no wake-up although GetCount() is read without
   the mutex: whenever the poll thread is blocked and the producer has finished
   its push, no sampling lidar has an entry the poll thread was not woken for
   (lds.cpp:184-195, 118-122; lddc.cpp:416-425).  A store buffer
   breaks this, and BacklogPublished says what is left. *)
NoLostWakeup == Prompt /\ Blocked /\ ppc = "idle" => \A l \in Lidars : ~Owed(l)

(* Why: an owed entry always has somebody who will still look at its queue: a
   count, a producer about to test or to signal, or a poll thread that has not
   passed the lidar yet.  After an exit request the poll thread may pass it by,
   but then it never waits again. *)
Covered(l) ==
  \/ count > 0
  \/ ppc \in {"count", "signal"}
  \/ ppc = "empty" /\ lidar = l
  \/ cpc \in {"scan", "outer", "inner"} /\ i <= l
  \/ request_exit /\ cpc # "wait"

EveryOwedCovered == Prompt => \A l \in Lidars : Owed(l) => Covered(l)

(* Testing the count before signalling keeps the counting semaphore binary, so
   a backlog never turns into a burst of empty turns (lds.cpp:187, 192, 119). *)
CountBinary == count + (IF ppc = "signal" THEN 1 ELSE 0) <= 1

(* Frames come at most every 10 ms and publishing one takes far less: the inner
   loop does not chase the producer for ever. *)
Paced == \A l \in Lidars : []<>~(cpc \in {"outer", "inner"} /\ i = l)

(* The lidars never fall silent for good.  On the IMU path Cap would stop them,
   so this is about rings. *)
Traffic == path = "pcd" /\ WF_vars(Arrival)

(* Everything queued for a sampling lidar is published, with no help from later
   data, unless the driver goes down or publishes in the format that ROS 2 does
   not support (lds.cpp:184-195, lddc.cpp:416-465, semaphore.cpp:29-39). *)
EntriesPublished ==
  Prompt /\ Paced => \A l \in Lidars :
    [](Owed(l) /\ xfer_format = "custom" => <>(~Owed(l) \/ request_exit))

(* As long as some lidar sends, whatever a sampling lidar has in its queue is
   published, also what was queued before it was sampling and also when a
   wake-up was lost to the store buffer; a ring that is full and refuses frames
   still wakes the poll thread (lds.cpp:191-195). *)
BacklogPublished ==
  Traffic /\ Paced => \A l \in Lidars :
    [](connect_state[l] = "sampling" /\ queue[l] > 0 /\ xfer_format = "custom"
         => <>(queue[l] = 0 \/ request_exit))

(* As long as some lidar sends, the poll thread ends after an exit request, in
   every format: join() returns (driver_node.cpp:34-39, lddc.cpp:411, 456;
   livox_ros_driver2.cpp:210-213). *)
ExitUnderTraffic ==
  Traffic /\ (xfer_format = "custom" => Paced) => [](request_exit => <>(cpc = "done"))

=============================================================================
