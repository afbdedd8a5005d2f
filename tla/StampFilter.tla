---------------------------- MODULE StampFilter ----------------------------
(***************************************************************************)
(* What the two poll threads drop between a queue and a topic              *)
(* (src/lddc.cpp, built for ROS 2 with self_filter_enabled): frames and    *)
(* IMU samples that are stale or whose stamp regressed, and frames with    *)
(* too few points before or after the self filter.                         *)
(*                                                                         *)
(* The threads run the same protocol on separate queues and stamps.  They  *)
(* share the drop counters, which are plain uint64_t members: ++ is a load *)
(* and a store with anything in between.  An entry is its stamp, a frame's *)
(* timebase being the same number (lddc.cpp:657-666); 0 is "no stamp".     *)
(***************************************************************************)
EXTENDS Integers, Sequences

CONSTANTS
  LidarCount,         (* lidars, each with a frame and an IMU queue         *)
  Threads,            (* {"pcd", "imu"}, or one of them to bound a run      *)
  MultiTopic,         (* the launch parameter multi_topic: a topic per lidar *)
  DropStale,          (* self_filter_drop_stale_stamps                      *)
  MaxAge,             (* self_filter_max_stamp_age_s                        *)
  StampTolerance,     (* self_filter_stamp_regression_tolerance_s           *)
  TimebaseTolerance,  (* self_filter_timebase_regression_tolerance_s        *)
  SourceOrdered,      (* TRUE iff each lidar's stamps never regress         *)
  MaxStamp,           (* bounds the exploration: stamps and the clock       *)
  MaxArrivals         (* bounds the exploration: entries of each thread     *)

ASSUME FilterAssumption ==
  /\ LidarCount \in Nat \ {0}
  /\ Threads \subseteq {"pcd", "imu"}
  /\ MultiTopic \in BOOLEAN /\ DropStale \in BOOLEAN /\ SourceOrdered \in BOOLEAN
  /\ MaxAge \in Nat /\ StampTolerance \in Nat /\ TimebaseTolerance \in Nat
  /\ MaxStamp \in Nat /\ MaxArrivals \in Nat

Lidars  == 0 .. LidarCount - 1
Stamps  == 0 .. MaxStamp
Reasons == {"stale", "regression"}

TopicOf(l) == IF MultiTopic THEN l ELSE 0

VARIABLES
  now,            (* the host's clock                                        *)
  queue,          (* entries of each thread and lidar: their stamps          *)
  i,              (* loop index of each thread in DistributeXxxData          *)
  last_stamp,     (* self_filter_last_lidar_stamp_ns_ and .._last_imu_stamp_ns_ *)
  last_timebase,  (* self_filter_last_lidar_timebase_ (frames only)          *)
  dropped,        (* self_filter_dropped_stale_count_, .._regression_count_  *)
  pc,             (* "poll", or the counter that the thread is incrementing  *)
  loaded,         (* the value of that counter that the thread has loaded    *)
  published,      (* history: stamps published by each thread, in order      *)
  newest,         (* history: newest stamp accepted for each topic           *)
  drops,          (* history: entries dropped for each reason                *)
  disorder,       (* history: entries of each lidar dropped as regressed     *)
                  (* although they were in order on their topic              *)
  arrivals,       (* bounds the exploration: entries still to come           *)
  source          (* newest stamp of each lidar's source                     *)

vars == <<now, queue, i, last_stamp, last_timebase, dropped, pc, loaded,
          published, newest, drops, disorder, arrivals, source>>

-----------------------------------------------------------------------------
Init ==
  /\ now = 0
  /\ queue = [t \in Threads |-> [l \in Lidars |-> <<>>]]
  /\ i = [t \in Threads |-> 0]
  /\ last_stamp = [t \in Threads |-> 0]
  /\ last_timebase = 0
  /\ dropped = [r \in Reasons |-> 0]
  /\ pc = [t \in Threads |-> "poll"]
  /\ loaded = [t \in Threads |-> 0]
  /\ published = [t \in Threads |-> <<>>]
  /\ newest = [t \in Threads |-> [l \in Lidars |-> 0]]
  /\ drops = [r \in Reasons |-> 0]
  /\ disorder = [t \in Threads |-> 0]
  /\ arrivals = [t \in Threads |-> MaxArrivals]
  /\ source = [t \in Threads |-> [l \in Lidars |-> 0]]

(* A producer queues an entry.  The stamp is the lidar's or the host's clock:
   ahead of the poll thread's clock or behind it, and back after a clock step. *)
Arrive(t, l, s) ==
  /\ arrivals[t] > 0
  /\ SourceOrdered => s >= source[t][l]
  /\ arrivals' = [arrivals EXCEPT ![t] = @ - 1]
  /\ source' = [source EXCEPT ![t][l] = s]
  /\ queue' = [queue EXCEPT ![t][l] = Append(@, s)]
  /\ UNCHANGED <<now, i, last_stamp, last_timebase, dropped, pc, loaded, published,
                 newest, drops, disorder>>

Tick ==
  /\ now < MaxStamp
  /\ now' = now + 1
  /\ UNCHANGED <<queue, i, last_stamp, last_timebase, dropped, pc, loaded, published,
                 newest, drops, disorder, arrivals, source>>

-----------------------------------------------------------------------------
(* AcceptCustomMsgTimestamp and AcceptImuTimestamp.                         *)

Stale(s) == DropStale /\ s > 0 /\ now - s > MaxAge

Regressed(t, s) ==
  /\ s > 0
  /\ \/ last_stamp[t] > 0 /\ s + StampTolerance < last_stamp[t]
     \/ t = "pcd" /\ last_timebase > 0 /\ s + TimebaseTolerance < last_timebase

Later(a, b) == IF a > b THEN a ELSE b

(* Mutated form of Remember: the last stamp, not the newest one. *)
Remember_Last(t, s) ==
  /\ last_stamp' = IF s > 0 THEN [last_stamp EXCEPT ![t] = s] ELSE last_stamp
  /\ last_timebase' = IF t = "pcd" /\ s > 0 THEN s ELSE last_timebase

Remember(t, s) ==
  /\ last_stamp' = [last_stamp EXCEPT ![t] = Later(@, s)]
  /\ last_timebase' = IF t = "pcd" THEN Later(last_timebase, s) ELSE last_timebase

(* Was the entry that the filter is about to drop in order on its topic? *)
InOrderHere(t, l, s) ==
  LET tolerance == IF t = "pcd" /\ TimebaseTolerance < StampTolerance
                     THEN TimebaseTolerance ELSE StampTolerance
  IN  s + tolerance >= newest[t][TopicOf(l)]

(* The entry is dropped, and the increment of the counter begins. *)
Drop(t, r) ==
  /\ pc' = [pc EXCEPT ![t] = r]
  /\ loaded' = [loaded EXCEPT ![t] = dropped[r]]
  /\ drops' = [drops EXCEPT ![r] = @ + 1]

(* An accepted frame may have too few points, before its points are filtered or
   after, and is then dropped; an IMU sample has no points to filter. *)
ApplySelfFilter(t, s) ==
  \/ published' = [published EXCEPT ![t] = Append(@, s)]
  \/ t = "pcd" /\ UNCHANGED published

(* PublishCustomPointcloud and PublishImuData: the oldest entry of the lidar's
   queue is dropped or published. *)
Publish(t) ==
  LET l == i[t]
      s == Head(queue[t][l])
  IN  /\ pc[t] = "poll"
      /\ queue[t][l] # <<>>
      /\ queue' = [queue EXCEPT ![t][l] = Tail(@)]
      /\ \/ /\ Stale(s)
            /\ Drop(t, "stale")
            /\ UNCHANGED <<last_stamp, last_timebase, published, newest, disorder>>
         \/ /\ ~Stale(s)
            /\ Regressed(t, s)
            /\ Drop(t, "regression")
            /\ disorder' = IF InOrderHere(t, l, s) THEN [disorder EXCEPT ![t] = @ + 1]
                                                   ELSE disorder
            /\ UNCHANGED <<last_stamp, last_timebase, published, newest>>
         \/ /\ ~Stale(s)
            /\ ~Regressed(t, s)
            /\ Remember(t, s)
            /\ newest' = [newest EXCEPT ![t][TopicOf(l)] = Later(@, s)]
            /\ ApplySelfFilter(t, s)
            /\ UNCHANGED <<pc, loaded, drops, disorder>>
      /\ UNCHANGED <<now, i, dropped, arrivals, source>>

(* Mutated form of StoreCount: every drop goes to the counter of regressions. *)
StoreCount_WrongCounter(t) ==
  /\ pc[t] \in Reasons
  /\ dropped' = [dropped EXCEPT !["regression"] = loaded[t] + 1]
  /\ pc' = [pc EXCEPT ![t] = "poll"]
  /\ UNCHANGED <<now, queue, i, last_stamp, last_timebase, loaded, published, newest,
                 drops, disorder, arrivals, source>>

StoreCount(t) ==
  /\ pc[t] \in Reasons
  /\ dropped' = [dropped EXCEPT ![pc[t]] = loaded[t] + 1]
  /\ pc' = [pc EXCEPT ![t] = "poll"]
  /\ UNCHANGED <<now, queue, i, last_stamp, last_timebase, loaded, published, newest,
                 drops, disorder, arrivals, source>>

(* Mutated form of NextLidar: one lidar too many. *)
NextLidar_OffByOne(t) ==
  /\ pc[t] = "poll"
  /\ queue[t][i[t]] = <<>>
  /\ i' = [i EXCEPT ![t] = IF @ < LidarCount THEN @ + 1 ELSE 0]
  /\ UNCHANGED <<now, queue, last_stamp, last_timebase, dropped, pc, loaded, published,
                 newest, drops, disorder, arrivals, source>>

(* A queue is emptied before the next lidar's; after the last lidar the thread
   waits for its semaphore (Delivery.tla) and starts again. *)
NextLidar(t) ==
  /\ pc[t] = "poll"
  /\ queue[t][i[t]] = <<>>
  /\ i' = [i EXCEPT ![t] = (@ + 1) % LidarCount]
  /\ UNCHANGED <<now, queue, last_stamp, last_timebase, dropped, pc, loaded, published,
                 newest, drops, disorder, arrivals, source>>

Next ==
  \/ \E t \in Threads, l \in Lidars, s \in Stamps : Arrive(t, l, s)
  \/ Tick
  \/ \E t \in Threads : Publish(t) \/ StoreCount(t) \/ NextLidar(t)

Spec == Init /\ [][Next]_vars

-----------------------------------------------------------------------------
(* Properties.                                                              *)

TypeOK ==
  /\ now \in Nat
  /\ queue \in [Threads -> [Lidars -> Seq(Nat)]]
  /\ i \in [Threads -> Lidars]
  /\ last_stamp \in [Threads -> Nat]
  /\ last_timebase \in Nat
  /\ dropped \in [Reasons -> Nat]
  /\ pc \in [Threads -> Reasons \cup {"poll"}]
  /\ loaded \in [Threads -> Nat]
  /\ published \in [Threads -> Seq(Nat)]
  /\ newest \in [Threads -> [Lidars -> Nat]]
  /\ drops \in [Reasons -> Nat]
  /\ disorder \in [Threads -> Nat]
  /\ arrivals \in [Threads -> Nat]
  /\ source \in [Threads -> [Lidars -> Nat]]

(* What is published never goes back in time by more than the tolerance, not
   only from one entry to the next: a slow drift backwards is stopped too, on
   every topic and over all lidars (lddc.cpp:727-768, 799-815). *)
PublishedInOrder ==
  \A t \in Threads : \A m, n \in 1 .. Len(published[t]) :
    m < n /\ published[t][n] > 0 =>
      /\ published[t][n] + StampTolerance >= published[t][m]
      /\ t = "pcd" => published[t][n] + TimebaseTolerance >= published[t][m]

(* Both threads increment the counters without a lock: an increment may be lost,
   but no counter ever shows more drops than there were
   (lddc.cpp:715, 732, 749, 788, 803). *)
CountsBounded == \A r \in Reasons : dropped[r] <= drops[r]

(* An entry that is dropped as "out-of-order" is out of order on the topic that
   it would be published to (lddc.cpp:735, 753, 806). *)
DroppedOutOfOrder == \A t \in Threads : disorder[t] = 0

=============================================================================
