----------------------------- MODULE PubHandler -----------------------------
(***************************************************************************)
(* How the packets of the lidars become frames (src/comm/pub_handler.cpp). *)
(*                                                                         *)
(* The SDK's thread notes in is_timestamp_sync_ whether the last packet    *)
(* had a synchronized clock and queues the packet under packet_mutex_; the *)
(* processing thread takes packets off the queue, appends their points to  *)
(* the point cloud of their lidar and, after each packet, decides in       *)
(* CheckTimer whether a frame is due: by the lidar's stamps when they are  *)
(* synchronized, by the host's clock for all lidars together when not.     *)
(*                                                                         *)
(* All points of a packet are appended together and leave together, and    *)
(* only the first and the last stamp of a point cloud are looked at, so    *)
(* that a packet stands for its points: [h, seq, first, last, known].      *)
(* Times are in units of which RatioOfMs make a millisecond.               *)
(***************************************************************************)
EXTENDS Integers, Sequences

CONSTANTS
  Handles,       (* the lidars that send; numbers                            *)
  TimeTypes,     (* subset of BOOLEAN: are the packets' clocks synchronized *)
  RatioOfMs,     (* kRatioOfMsToNs, in units                                *)
  Interval,      (* publish_interval_, in units                             *)
  Word,          (* uint64_t wraps around here: 2^64 in the code            *)
  Dense,         (* TRUE iff each packet ends within half a millisecond of  *)
                 (* the one before it                                       *)
  MaxDuration,   (* bounds the exploration: time from first to last point   *)
  MaxNow,        (* bounds the exploration: the host's clock                *)
  MaxStamp,      (* bounds the exploration: stamps                          *)
  MaxPackets,    (* bounds the exploration: packets of each lidar           *)
  MaxQueue       (* bounds the exploration: raw_packet_queue_               *)

ASSUME PubAssumption ==
  /\ Handles \subseteq Nat
  /\ TimeTypes \subseteq BOOLEAN
  /\ RatioOfMs \in Nat \ {0}
  /\ Interval \in Nat /\ Interval >= RatioOfMs
  /\ MaxDuration \in Nat /\ MaxPackets \in Nat /\ MaxQueue \in Nat
  /\ MaxStamp \in Nat /\ MaxNow \in 0 .. MaxStamp
  /\ Word \in Nat /\ Word > MaxStamp + MaxDuration
  /\ Dense \in BOOLEAN

VARIABLES
  now,            (* the host's clock                                         *)
  is_timestamp_sync,
  spc, packet,    (* SDK thread: where it is, and the packet it has received  *)
  raw_packet_queue,
  pc, raw_data,   (* processing thread: where it is, and its packet           *)
  points_clouds,  (* points_clouds_ of each lidar's handler                   *)
  handlers,       (* the lidars that have a handler                           *)
  last_pub_time, first,
  is_quit,
  frame,          (* the last frame given to points_callback_                 *)
  received,       (* history: packets of each lidar received                  *)
  published,      (* history: packets of each lidar published                 *)
  frames,         (* history: frames of the host's clock                      *)
  start           (* history: when that clock was first looked at             *)

vars == <<now, is_timestamp_sync, spc, packet, raw_packet_queue, pc, raw_data,
          points_clouds, handlers, last_pub_time, first, is_quit, frame, received,
          published, frames, start>>

sdk      == <<is_timestamp_sync, spc, packet, received>>
timer    == <<last_pub_time, first, frames, start>>
clouds   == <<points_clouds, handlers>>
output   == <<frame, published>>

NoPacket == [h |-> 0, seq |-> 0, first |-> 0, last |-> 0, known |-> FALSE]

-----------------------------------------------------------------------------
Init ==
  /\ now = 0
  /\ is_timestamp_sync = FALSE
  /\ spc = "idle"
  /\ packet = NoPacket
  /\ raw_packet_queue = <<>>
  /\ pc = "top"
  /\ raw_data = NoPacket
  /\ points_clouds = [h \in Handles |-> <<>>]
  /\ handlers = {}
  /\ last_pub_time = 0
  /\ first = TRUE
  /\ is_quit = FALSE
  /\ frame = {}
  /\ received = [h \in Handles |-> [count |-> 0, seq |-> 0, last |-> 0]]
  /\ published = [h \in Handles |-> 0]
  /\ frames = 0
  /\ start = 0

Tick ==
  /\ now < MaxNow
  /\ now' = now + 1
  /\ UNCHANGED <<sdk, raw_packet_queue, pc, raw_data, clouds, timer, is_quit, output>>

-----------------------------------------------------------------------------
(* The SDK's thread: OnLivoxLidarPointCloudCallback.                        *)

(* Stamps of a packet: the host's clock unless the lidar's is synchronized;
   without gaps, the next packet ends within half a millisecond. *)
StampsOf(h, sync) ==
  {s \in (0 .. MaxStamp) \X (0 .. MaxStamp + MaxDuration) :
     /\ s[1] <= s[2] /\ s[2] <= s[1] + MaxDuration
     /\ ~sync => s[1] = now
     /\ Dense => /\ s[1] > received[h].last
                 /\ received[h].seq > 0 => s[2] <= received[h].last + RatioOfMs \div 2}

(* IMU data of any lidar sets the flag and goes its own way (Delivery.tla). *)
OnImuPacket(sync) ==
  /\ spc = "idle"
  /\ sync # is_timestamp_sync
  /\ is_timestamp_sync' = sync
  /\ UNCHANGED <<now, spc, packet, received, raw_packet_queue, pc, raw_data, clouds,
                 timer, is_quit, output>>

(* The points of a packet whose data_type is not known are not stored. *)
OnPacket(h, sync) ==
  /\ spc = "idle"
  /\ received[h].count < MaxPackets
  /\ Len(raw_packet_queue) < MaxQueue
  /\ is_timestamp_sync' = sync
  /\ \E s \in StampsOf(h, sync), known \in (IF Dense THEN {TRUE} ELSE BOOLEAN) :
       /\ packet' = [h |-> h, seq |-> received[h].seq + (IF known THEN 1 ELSE 0),
                     first |-> s[1], last |-> s[2], known |-> known]
       /\ received' = [received EXCEPT ![h] =
                         [count |-> @.count + 1, seq |-> packet'.seq, last |-> s[2]]]
  /\ spc' = "push"
  /\ UNCHANGED <<now, raw_packet_queue, pc, raw_data, clouds, timer, is_quit, output>>

(* push_back under packet_mutex_. *)
PushPacket ==
  /\ spc = "push"
  /\ raw_packet_queue' = Append(raw_packet_queue, packet)
  /\ packet' = NoPacket
  /\ spc' = "notify"
  /\ UNCHANGED <<now, is_timestamp_sync, received, pc, raw_data, clouds, timer,
                 is_quit, output>>

Notify ==
  /\ spc = "notify"
  /\ spc' = "idle"
  /\ pc' = IF pc = "waiting" THEN "woken" ELSE pc
  /\ UNCHANGED <<now, is_timestamp_sync, packet, received, raw_packet_queue, raw_data,
                 clouds, timer, is_quit, output>>

(* ~PubHandler: RequestExit, after which Uninit joins the processing thread. *)
RequestExit ==
  /\ ~is_quit
  /\ is_quit' = TRUE
  /\ UNCHANGED <<now, sdk, raw_packet_queue, pc, raw_data, clouds, timer, output>>

-----------------------------------------------------------------------------
(* The processing thread: RawDataProcess.                                   *)

TestQuit ==
  /\ pc = "top"
  /\ pc' = IF is_quit THEN "done" ELSE "lock"
  /\ UNCHANGED <<now, sdk, raw_packet_queue, raw_data, clouds, timer, is_quit, output>>

(* The wait releases packet_mutex_, under which the queue was found empty. *)
WaitForPacket ==
  /\ pc = "lock"
  /\ raw_packet_queue = <<>>
  /\ pc' = "waiting"
  /\ UNCHANGED <<now, sdk, raw_packet_queue, raw_data, clouds, timer, is_quit, output>>

(* Mutated form of WaitTimeout: wait instead of wait_for. *)
WaitTimeout_Never ==
  /\ FALSE
  /\ UNCHANGED vars

WaitTimeout ==
  /\ pc = "waiting"
  /\ pc' = "woken"
  /\ UNCHANGED <<now, sdk, raw_packet_queue, raw_data, clouds, timer, is_quit, output>>

WakeInVain ==
  /\ pc = "woken"
  /\ raw_packet_queue = <<>>
  /\ pc' = "top"
  /\ UNCHANGED <<now, sdk, raw_packet_queue, raw_data, clouds, timer, is_quit, output>>

(* Mutated form of PopPacket: the newest packet is taken. *)
PopPacket_Newest ==
  /\ pc \in {"lock", "woken"}
  /\ raw_packet_queue # <<>>
  /\ raw_data' = raw_packet_queue[Len(raw_packet_queue)]
  /\ raw_packet_queue' = SubSeq(raw_packet_queue, 1, Len(raw_packet_queue) - 1)
  /\ pc' = "process"
  /\ UNCHANGED <<now, sdk, clouds, timer, is_quit, output>>

PopPacket ==
  /\ pc \in {"lock", "woken"}
  /\ raw_packet_queue # <<>>
  /\ raw_data' = Head(raw_packet_queue)
  /\ raw_packet_queue' = Tail(raw_packet_queue)
  /\ pc' = "process"
  /\ UNCHANGED <<now, sdk, clouds, timer, is_quit, output>>

(* PointCloudProcess, in a handler that is made for the lidar's first packet. *)
PointCloudProcess ==
  /\ pc = "process"
  /\ handlers' = handlers \cup {raw_data.h}
  /\ points_clouds' = IF raw_data.known
                        THEN [points_clouds EXCEPT ![raw_data.h] = Append(@, raw_data)]
                        ELSE points_clouds
  /\ pc' = "check"
  /\ UNCHANGED <<now, sdk, raw_packet_queue, raw_data, timer, is_quit, output>>

-----------------------------------------------------------------------------
(* CheckTimer.                                                              *)

GetLidarBaseTime(h) ==
  IF points_clouds[h] = <<>> THEN 0 ELSE Head(points_clouds[h]).first

GetRecentTimeStamp(h) ==
  IF points_clouds[h] = <<>> THEN 0 ELSE points_clouds[h][Len(points_clouds[h])].last

(* Mutated form of FrameDue: no tolerance. *)
FrameDue_NoTolerance(h) ==
  LET recent_time_ms == GetRecentTimeStamp(h) \div RatioOfMs
  IN  /\ recent_time_ms % (Interval \div RatioOfMs) = 0
      /\ recent_time_ms # 0
      /\ (GetRecentTimeStamp(h) - GetLidarBaseTime(h)) % Word >= Interval

(* The last point is in a millisecond that is a multiple of the interval, and
   the point cloud spans the interval but for a millisecond. *)
FrameDue(h) ==
  LET recent_time_ms == GetRecentTimeStamp(h) \div RatioOfMs
  IN  /\ recent_time_ms % (Interval \div RatioOfMs) = 0
      /\ recent_time_ms # 0
      /\ (GetRecentTimeStamp(h) - GetLidarBaseTime(h)) % Word >= Interval - RatioOfMs

(* Mutated form of LidarPoint: the base time is read after the swap. *)
LidarPoint_BaseAfterSwap(h) == [handle |-> h, base |-> 0, points |-> points_clouds[h]]

LidarPoint(h) ==
  [handle |-> h, base |-> GetLidarBaseTime(h), points |-> points_clouds[h]]

(* The callback passes a frame on, unless there is no lidar in it.  The lidars of
   a frame have queues of their own, so that their order does not matter. *)
OnLidarPointClounCb(f) ==
  published' =
    [h \in Handles |->
      IF \E p \in f : p.handle = h
        THEN published[h] + Len((CHOOSE p \in f : p.handle = h).points)
        ELSE published[h]]

(* The point clouds of hs are swapped out, made a frame and given to the
   callback; those that are empty are left out. *)
PublishPointCloud(hs) ==
  LET f == {LidarPoint(h) : h \in {g \in hs : points_clouds[g] # <<>>}}
  IN  /\ frame' = f
      /\ points_clouds' = [h \in Handles |-> IF h \in hs THEN <<>> ELSE points_clouds[h]]
      /\ OnLidarPointClounCb(f)

CheckTimerSync ==
  /\ pc = "check"
  /\ is_timestamp_sync
  /\ IF FrameDue(raw_data.h) THEN PublishPointCloud({raw_data.h})
                             ELSE UNCHANGED <<points_clouds, output>>
  /\ pc' = "top"
  /\ UNCHANGED <<now, sdk, raw_packet_queue, raw_data, handlers, timer, is_quit>>

(* Mutated form of CheckTimerFirst: the first frame is due at once. *)
CheckTimerFirst_DueAtOnce ==
  /\ pc = "check"
  /\ ~is_timestamp_sync
  /\ first
  /\ first' = FALSE
  /\ last_pub_time' = now - Interval
  /\ start' = now
  /\ pc' = "top"
  /\ UNCHANGED <<now, sdk, raw_packet_queue, raw_data, clouds, frames, is_quit, output>>

(* The first packet without synchronization starts the host's clock. *)
CheckTimerFirst ==
  /\ pc = "check"
  /\ ~is_timestamp_sync
  /\ first
  /\ first' = FALSE
  /\ last_pub_time' = now
  /\ start' = now
  /\ pc' = "top"
  /\ UNCHANGED <<now, sdk, raw_packet_queue, raw_data, clouds, frames, is_quit, output>>

(* Mutated form of CheckTimerHost: the time of the last frame is not moved on. *)
CheckTimerHost_NoAdvance ==
  /\ pc = "check"
  /\ ~is_timestamp_sync
  /\ ~first
  /\ IF now - last_pub_time >= Interval
       THEN /\ PublishPointCloud(handlers)
            /\ frames' = frames + 1
       ELSE UNCHANGED <<points_clouds, output, frames>>
  /\ pc' = "top"
  /\ UNCHANGED <<now, sdk, raw_packet_queue, raw_data, handlers, last_pub_time, first,
                 start, is_quit>>

(* last_pub_time_ moves on by one interval, whatever the delay was. *)
CheckTimerHost ==
  /\ pc = "check"
  /\ ~is_timestamp_sync
  /\ ~first
  /\ IF now - last_pub_time >= Interval
       THEN /\ last_pub_time' = last_pub_time + Interval
            /\ PublishPointCloud(handlers)
            /\ frames' = frames + 1
       ELSE UNCHANGED <<points_clouds, output, last_pub_time, frames>>
  /\ pc' = "top"
  /\ UNCHANGED <<now, sdk, raw_packet_queue, raw_data, handlers, first, start, is_quit>>

Process ==
  \/ TestQuit
  \/ WaitForPacket
  \/ WakeInVain
  \/ PopPacket
  \/ PointCloudProcess
  \/ CheckTimerSync
  \/ CheckTimerFirst
  \/ CheckTimerHost

Next ==
  \/ Tick
  \/ \E sync \in TimeTypes : OnImuPacket(sync)
  \/ \E h \in Handles, sync \in TimeTypes : OnPacket(h, sync)
  \/ PushPacket
  \/ Notify
  \/ RequestExit
  \/ WaitTimeout
  \/ Process

(* The processing thread runs, and wait_for returns after 500 ms at the latest.
   Nothing is assumed of the SDK's thread. *)
Spec == Init /\ [][Next]_vars /\ WF_vars(Process) /\ WF_vars(WaitTimeout)

-----------------------------------------------------------------------------
(* Properties.                                                              *)

Packets == [h : Handles \cup {0}, seq : Nat, first : Nat, last : Nat, known : BOOLEAN]

TypeOK ==
  /\ now \in Nat
  /\ is_timestamp_sync \in BOOLEAN
  /\ spc \in {"idle", "push", "notify"}
  /\ packet \in Packets
  /\ raw_packet_queue \in Seq(Packets)
  /\ pc \in {"top", "lock", "waiting", "woken", "process", "check", "done"}
  /\ raw_data \in Packets
  /\ points_clouds \in [Handles -> Seq(Packets)]
  /\ handlers \subseteq Handles
  /\ last_pub_time \in Nat
  /\ first \in BOOLEAN
  /\ is_quit \in BOOLEAN
  /\ frame \subseteq [handle : Handles, base : Nat, points : Seq(Packets)]
  /\ received \in [Handles -> [count : Nat, seq : Nat, last : Nat]]
  /\ published \in [Handles -> Nat]
  /\ frames \in Nat
  /\ start \in Nat

(* What is on its way from the SDK to the point clouds, oldest first. *)
Held ==
  (IF pc = "process" THEN <<raw_data>> ELSE <<>>) \o raw_packet_queue
    \o (IF spc = "push" THEN <<packet>> ELSE <<>>)

Positions(h) == {k \in DOMAIN Held : Held[k].h = h /\ Held[k].known}

Taken(h) == published[h] + Len(points_clouds[h])

(* Every packet of a lidar is published once and in the order of arrival,
   whatever clock is in use when, and however often that changes: its points are
   published, or in the point cloud behind them, or on their way behind those
   (pub_handler.cpp:110-114, 169-258). *)
EachPacketOnce ==
  \A h \in Handles :
    /\ \A k \in DOMAIN points_clouds[h] : points_clouds[h][k].seq = published[h] + k
    /\ \A n \in Taken(h) + 1 .. received[h].seq : \E k \in Positions(h) : Held[k].seq = n
    /\ \A k \in Positions(h) : Held[k].seq \in Taken(h) + 1 .. received[h].seq
    /\ \A j, k \in Positions(h) : j < k => Held[j].seq < Held[k].seq

(* The base time of each lidar in a frame is the stamp of its first point, from
   which the offsets of all its points are computed (pub_handler.cpp:183,
   lddc.cpp:689), and no lidar is in a frame twice or with no points. *)
FrameConsistent ==
  /\ \A p \in frame : p.points # <<>> /\ p.base = Head(p.points).first
  /\ \A p, q \in frame : p.handle = q.handle => p = q

(* A lidar without gaps, on a synchronized clock, gets its frames on time: only
   the first may be longer than the interval by more than a millisecond, and
   never twice as long (pub_handler.cpp:66-69, 174-181).  Half a millisecond is
   what the tolerance of one millisecond covers: with packets a millisecond
   apart a frame can miss its time and last for two intervals. *)
FramesOnTime ==
  \A p \in frame :
    p.points[Len(p.points)].last - p.base
      < IF Head(p.points).seq = 1 THEN 2 * Interval ELSE Interval + RatioOfMs

(* On the host's clock there is never more than one frame per interval on average
   (after a delay the frames that are late follow each other at once), and the
   frames stay in phase with the first packet (pub_handler.cpp:202-212). *)
RateKept ==
  ~first => frames * Interval <= now - start /\ last_pub_time = start + frames * Interval

(* ~PubHandler can join the processing thread although RequestExit does not
   notify it (pub_handler.cpp:45-64, 236-244). *)
ExitJoins == is_quit ~> pc = "done"

=============================================================================
