-------------------------- MODULE PubHandlerProofs --------------------------
(***************************************************************************)
(* Theorems about PubHandler, for any lidars, stamps, intervals and queue  *)
(* lengths, and any mixture of the two frame clocks.                       *)
(*                                                                         *)
(* EachPacketOnce is inductive together with the types and the fact that   *)
(* what is on its way comes from a lidar: the three places between the SDK *)
(* and the point clouds are one sequence, Held, which PushPacket and       *)
(* PopPacket leave as it is.                                               *)
(*                                                                         *)
(* FramesOnTime has a section of its own, with the windows in which a      *)
(* frame can become due.                                                   *)
(***************************************************************************)
EXTENDS PubHandler, SequenceTheorems, TLAPS

(* What is on its way comes from a lidar. *)
SendersKnown ==
  /\ spc = "push" => packet.h \in Handles
  /\ \A k \in DOMAIN raw_packet_queue : raw_packet_queue[k].h \in Handles
  /\ pc \in {"process", "check"} => raw_data.h \in Handles

IInv == TypeOK /\ SendersKnown

-----------------------------------------------------------------------------
(* Type correctness. *)

LEMMA InitIInv == Init => IInv
<1> SUFFICES ASSUME Init PROVE IInv
  OBVIOUS
<1>1. NoPacket \in Packets
  BY DEF NoPacket, Packets
<1>2. <<>> \in Seq(Packets)
  OBVIOUS
<1>3. points_clouds \in [Handles -> Seq(Packets)]
  BY <1>2 DEF Init
<1>4. received \in [Handles -> [count : Nat, seq : Nat, last : Nat]]
  BY DEF Init
<1>5. published \in [Handles -> Nat] /\ first \in BOOLEAN /\ frame = {}
  BY DEF Init
<1>6. /\ is_timestamp_sync \in BOOLEAN /\ is_quit \in BOOLEAN
      /\ now = 0 /\ last_pub_time = 0 /\ frames = 0 /\ start = 0
      /\ handlers = {} /\ spc = "idle" /\ pc = "top" /\ raw_packet_queue = <<>>
      /\ packet = NoPacket /\ raw_data = NoPacket
  BY DEF Init
<1>7. TypeOK
  BY <1>1, <1>2, <1>3, <1>4, <1>5, <1>6 DEF TypeOK
<1>8. SendersKnown
  BY DEF Init, SendersKnown
<1> QED  BY <1>7, <1>8 DEF IInv

LEMMA BaseTypes ==
  ASSUME TypeOK, NEW h \in Handles
  PROVE  GetLidarBaseTime(h) \in Nat
<1>1. points_clouds[h] \in Seq(Packets)
  BY DEF TypeOK
<1>2. CASE points_clouds[h] = <<>>
  BY <1>2 DEF GetLidarBaseTime
<1>3. CASE points_clouds[h] # <<>>
  <2>1. Head(points_clouds[h]) \in Packets
    BY <1>1, <1>3
  <2> QED  BY <1>3, <2>1 DEF GetLidarBaseTime, Packets
<1> QED  BY <1>2, <1>3

(* What a frame has of a lidar. *)
LEMMA FramePoints ==
  ASSUME TypeOK, NEW hs \in SUBSET Handles, PublishPointCloud(hs)
  PROVE  /\ frame' \subseteq [handle : Handles, base : Nat, points : Seq(Packets)]
         /\ \A p \in frame' : /\ p.handle \in hs /\ points_clouds[p.handle] # <<>>
                              /\ p.points = points_clouds[p.handle]
                              /\ p.base = GetLidarBaseTime(p.handle)
         /\ \A h \in hs : points_clouds[h] # <<>> => LidarPoint(h) \in frame'
<1>1. frame' = {LidarPoint(h) : h \in {g \in hs : points_clouds[g] # <<>>}}
  BY DEF PublishPointCloud
<1>2. \A h \in Handles : GetLidarBaseTime(h) \in Nat
  BY BaseTypes
<1>3. \A h \in Handles : points_clouds[h] \in Seq(Packets)
  BY DEF TypeOK
<1> QED  BY <1>1, <1>2, <1>3 DEF LidarPoint

(* The callback counts what leaves the point clouds. *)
LEMMA PublishCounts ==
  ASSUME TypeOK, NEW hs \in SUBSET Handles, PublishPointCloud(hs)
  PROVE  /\ points_clouds' \in [Handles -> Seq(Packets)]
         /\ published' \in [Handles -> Nat]
         /\ \A h \in hs : /\ points_clouds'[h] = <<>>
                          /\ published'[h] = published[h] + Len(points_clouds[h])
         /\ \A h \in Handles \ hs : /\ points_clouds'[h] = points_clouds[h]
                                    /\ published'[h] = published[h]
<1> DEFINE seen(h) == \E p \in frame' : p.handle = h
           one(h) == CHOOSE p \in frame' : p.handle = h
<1>1. /\ points_clouds' = [h \in Handles |-> IF h \in hs THEN <<>> ELSE points_clouds[h]]
      /\ published' = [h \in Handles |-> IF seen(h) THEN published[h] + Len(one(h).points)
                                                    ELSE published[h]]
  BY DEF PublishPointCloud, OnLidarPointClounCb
<1>2. \A h \in Handles : /\ points_clouds[h] \in Seq(Packets) /\ published[h] \in Nat
                         /\ Len(points_clouds[h]) \in Nat
  BY DEF TypeOK
<1>3. \A h \in Handles : seen(h) => /\ h \in hs
                                    /\ one(h).points = points_clouds[h]
  BY FramePoints
<1>4. \A h \in hs : points_clouds[h] # <<>> => seen(h)
  BY FramePoints DEF LidarPoint
<1> HIDE DEF seen, one
<1>5. \A h \in hs : published'[h] = published[h] + Len(points_clouds[h])
  <2> SUFFICES ASSUME NEW h \in hs PROVE published'[h] = published[h] + Len(points_clouds[h])
    OBVIOUS
  <2>1. CASE seen(h)
    BY <1>1, <1>3, <2>1
  <2>2. CASE ~seen(h)
    BY <1>1, <1>2, <1>4, <2>2
  <2> QED  BY <2>1, <2>2
<1>6. \A h \in Handles \ hs : published'[h] = published[h]
  BY <1>1, <1>3
<1>7. published' \in [Handles -> Nat]
  BY <1>1, <1>2, <1>5, <1>6
<1>8. points_clouds' \in [Handles -> Seq(Packets)]
  BY <1>1, <1>2
<1> QED  BY <1>1, <1>5, <1>6, <1>7, <1>8

LEMMA OnPacketTypes ==
  ASSUME TypeOK, NEW h \in Handles, NEW sync \in TimeTypes, OnPacket(h, sync)
  PROVE  /\ packet' \in Packets /\ packet'.h = h
         /\ received' \in [Handles -> [count : Nat, seq : Nat, last : Nat]]
         /\ is_timestamp_sync' \in BOOLEAN
<1>1. PICK s \in StampsOf(h, sync), known \in BOOLEAN :
        /\ packet' = [h |-> h, seq |-> received[h].seq + (IF known THEN 1 ELSE 0),
                      first |-> s[1], last |-> s[2], known |-> known]
        /\ received' = [received EXCEPT ![h] =
                          [count |-> @.count + 1, seq |-> packet'.seq, last |-> s[2]]]
  BY DEF OnPacket
<1>2. s[1] \in Nat /\ s[2] \in Nat
  BY PubAssumption DEF StampsOf
<1>3. received[h].seq \in Nat /\ received[h].count \in Nat
  BY DEF TypeOK
<1>4. packet' \in Packets /\ packet'.h = h /\ packet'.seq \in Nat
  BY <1>1, <1>2, <1>3 DEF Packets
<1>5. received' \in [Handles -> [count : Nat, seq : Nat, last : Nat]]
  BY <1>1, <1>2, <1>3, <1>4 DEF TypeOK
<1>6. is_timestamp_sync' \in BOOLEAN
  BY PubAssumption DEF OnPacket
<1> QED  BY <1>4, <1>5, <1>6

LEMMA StepTypeOK ==
  ASSUME IInv, [Next]_vars
  PROVE  TypeOK'
<1> USE DEF IInv
<1>1. CASE Tick
  BY <1>1 DEF Tick, TypeOK, sdk, clouds, timer, output
<1>2. ASSUME NEW sync \in TimeTypes, OnImuPacket(sync) PROVE TypeOK'
  BY <1>2, PubAssumption DEF OnImuPacket, TypeOK, clouds, timer, output
<1>3. ASSUME NEW h \in Handles, NEW sync \in TimeTypes, OnPacket(h, sync) PROVE TypeOK'
  BY <1>3, OnPacketTypes DEF OnPacket, TypeOK, clouds, timer, output
<1>4. CASE PushPacket
  <2>1. NoPacket \in Packets
    BY DEF NoPacket, Packets
  <2> QED  BY <1>4, <2>1 DEF PushPacket, TypeOK, clouds, timer, output
<1>5. CASE Notify
  BY <1>5 DEF Notify, TypeOK, clouds, timer, output
<1>6. CASE RequestExit
  BY <1>6 DEF RequestExit, TypeOK, sdk, clouds, timer, output
<1>7. CASE TestQuit \/ WaitForPacket \/ WaitTimeout \/ WakeInVain
  BY <1>7 DEF TestQuit, WaitForPacket, WaitTimeout, WakeInVain, TypeOK, sdk, clouds,
              timer, output
<1>8. CASE PopPacket
  <2>1. Head(raw_packet_queue) \in Packets /\ Tail(raw_packet_queue) \in Seq(Packets)
    BY <1>8 DEF PopPacket, TypeOK
  <2> QED  BY <1>8, <2>1 DEF PopPacket, TypeOK, sdk, clouds, timer, output
<1>9. CASE PointCloudProcess
  <2>1. raw_data.h \in Handles
    BY <1>9 DEF PointCloudProcess, SendersKnown
  <2>2. points_clouds' \in [Handles -> Seq(Packets)] /\ handlers' \subseteq Handles
    BY <1>9, <2>1 DEF PointCloudProcess, TypeOK
  <2> QED  BY <1>9, <2>2 DEF PointCloudProcess, TypeOK, sdk, timer, output
<1>10. CASE CheckTimerSync
  <2>1. CASE FrameDue(raw_data.h)
    <3>1. PublishPointCloud({raw_data.h}) /\ {raw_data.h} \in SUBSET Handles
      BY <1>10, <2>1 DEF CheckTimerSync, SendersKnown
    <3> QED  BY <1>10, <3>1, FramePoints, PublishCounts DEF CheckTimerSync, TypeOK, sdk, timer
  <2>2. CASE ~FrameDue(raw_data.h)
    BY <1>10, <2>2 DEF CheckTimerSync, TypeOK, sdk, timer, output
  <2> QED  BY <2>1, <2>2
<1>11. CASE CheckTimerFirst
  BY <1>11 DEF CheckTimerFirst, TypeOK, sdk, clouds, output
<1>12. CASE CheckTimerHost
  <2>1. CASE now - last_pub_time >= Interval
    <3>1. PublishPointCloud(handlers) /\ handlers \in SUBSET Handles
      BY <1>12, <2>1 DEF CheckTimerHost, TypeOK
    <3>2. last_pub_time' \in Nat /\ frames' \in Nat
      BY <1>12, <2>1, PubAssumption DEF CheckTimerHost, TypeOK
    <3> QED  BY <1>12, <3>1, <3>2, FramePoints, PublishCounts DEF CheckTimerHost, TypeOK, sdk
  <2>2. CASE ~(now - last_pub_time >= Interval)
    BY <1>12, <2>2 DEF CheckTimerHost, TypeOK, sdk, output
  <2> QED  BY <2>1, <2>2
<1>13. CASE UNCHANGED vars
  BY <1>13 DEF vars, TypeOK
<1> QED
  BY <1>1, <1>2, <1>3, <1>4, <1>5, <1>6, <1>7, <1>8, <1>9, <1>10, <1>11, <1>12, <1>13
  DEF Next, Process

LEMMA StepSenders ==
  ASSUME IInv, [Next]_vars
  PROVE  SendersKnown'
<1> USE DEF IInv
<1>1. ASSUME UNCHANGED <<spc, packet, raw_packet_queue, raw_data>>,
             pc' \in {"process", "check"} => pc \in {"process", "check"}
      PROVE  SendersKnown'
  BY <1>1 DEF SendersKnown
<1>2. ASSUME NEW h \in Handles, NEW sync \in TimeTypes, OnPacket(h, sync) PROVE SendersKnown'
  BY <1>2, OnPacketTypes DEF OnPacket, SendersKnown
<1>3. CASE PushPacket
  <2>1. raw_packet_queue' = Append(raw_packet_queue, packet) /\ spc = "push" /\ spc' = "notify"
        /\ UNCHANGED <<pc, raw_data>>
    BY <1>3 DEF PushPacket
  <2>2. packet.h \in Handles
    BY <2>1 DEF SendersKnown
  <2> QED  BY <2>1, <2>2 DEF SendersKnown, TypeOK
<1>4. CASE Notify
  BY <1>4 DEF Notify, SendersKnown
<1>5. CASE PopPacket
  <2>1. /\ raw_packet_queue # <<>> /\ raw_data' = Head(raw_packet_queue)
        /\ raw_packet_queue' = Tail(raw_packet_queue) /\ UNCHANGED <<spc, packet>>
    BY <1>5 DEF PopPacket, sdk
  <2>2. raw_data' = raw_packet_queue[1] /\ 1 \in DOMAIN raw_packet_queue
    BY <2>1 DEF TypeOK
  <2>3. \A k \in DOMAIN raw_packet_queue' :
          /\ k + 1 \in DOMAIN raw_packet_queue
          /\ raw_packet_queue'[k] = raw_packet_queue[k + 1]
    BY <2>1 DEF TypeOK
  <2> QED  BY <2>1, <2>2, <2>3 DEF SendersKnown
<1>6. CASE Tick \/ RequestExit \/ \E sync \in TimeTypes : OnImuPacket(sync)
  BY <1>1, <1>6 DEF Tick, RequestExit, OnImuPacket, sdk
<1>7. CASE TestQuit \/ WaitForPacket \/ WaitTimeout \/ WakeInVain \/ PointCloudProcess
  BY <1>1, <1>7 DEF TestQuit, WaitForPacket, WaitTimeout, WakeInVain, PointCloudProcess, sdk
<1>8. CASE CheckTimerSync \/ CheckTimerFirst \/ CheckTimerHost
  BY <1>1, <1>8 DEF CheckTimerSync, CheckTimerFirst, CheckTimerHost, sdk
<1>9. CASE UNCHANGED vars
  BY <1>1, <1>9 DEF vars
<1> QED
  BY <1>2, <1>3, <1>4, <1>5, <1>6, <1>7, <1>8, <1>9 DEF Next, Process

LEMMA StepIInv == IInv /\ [Next]_vars => IInv'
BY StepTypeOK, StepSenders DEF IInv

LEMMA IInvHolds == Spec => []IInv
BY InitIInv, StepIInv, PTL DEF Spec

(* The type invariant, whatever the lidars send (pub_handler.cpp:103-260). *)
THEOREM TypeCorrect == Spec => []TypeOK
<1>1. IInv => TypeOK
  BY DEF IInv
<1> QED  BY <1>1, IInvHolds, PTL

-----------------------------------------------------------------------------
(* Frames. *)

LEMMA StepFrame == IInv /\ FrameConsistent /\ [Next]_vars => FrameConsistent'
<1> SUFFICES ASSUME IInv, FrameConsistent, [Next]_vars PROVE FrameConsistent'
  OBVIOUS
<1>1. ASSUME NEW hs \in SUBSET Handles, PublishPointCloud(hs) PROVE FrameConsistent'
  <2>1. \A p \in frame' : p.points # <<>> /\ p.base = Head(p.points).first
    BY <1>1, FramePoints DEF GetLidarBaseTime, IInv
  <2>2. frame' = {LidarPoint(h) : h \in {g \in hs : points_clouds[g] # <<>>}}
    BY <1>1 DEF PublishPointCloud
  <2>3. \A p, q \in frame' : p.handle = q.handle => p = q
    BY <2>2 DEF LidarPoint
  <2> QED  BY <2>1, <2>3 DEF FrameConsistent
<1>2. ASSUME frame' = frame PROVE FrameConsistent'
  BY <1>2 DEF FrameConsistent
<1>3. CASE CheckTimerSync
  <2>1. {raw_data.h} \in SUBSET Handles
    BY <1>3 DEF CheckTimerSync, IInv, SendersKnown
  <2> QED  BY <1>1, <1>2, <1>3, <2>1 DEF CheckTimerSync, output
<1>4. CASE CheckTimerHost
  <2>1. handlers \in SUBSET Handles
    BY DEF IInv, TypeOK
  <2> QED  BY <1>1, <1>2, <1>4, <2>1 DEF CheckTimerHost, output
<1>5. ASSUME NEW h \in Handles, NEW sync \in TimeTypes, OnPacket(h, sync) PROVE frame' = frame
  BY <1>5 DEF OnPacket, output
<1>6. ASSUME NEW sync \in TimeTypes, OnImuPacket(sync) PROVE frame' = frame
  BY <1>6 DEF OnImuPacket, output
<1>7. CASE \/ Tick \/ PushPacket \/ Notify \/ RequestExit \/ WaitTimeout \/ TestQuit
           \/ WaitForPacket \/ WakeInVain \/ PopPacket \/ PointCloudProcess \/ CheckTimerFirst
  BY <1>2, <1>7 DEF Tick, PushPacket, Notify, RequestExit, WaitTimeout, TestQuit,
     WaitForPacket, WakeInVain, PopPacket, PointCloudProcess, CheckTimerFirst, output
<1>8. CASE UNCHANGED vars
  BY <1>2, <1>8 DEF vars
<1> QED
  BY <1>2, <1>3, <1>4, <1>5, <1>6, <1>7, <1>8 DEF Next, Process

LEMMA InitFrame == Init => FrameConsistent
BY DEF Init, FrameConsistent

(* The base time of a lidar in a frame is the stamp of its first point, whatever
   clock the frame is made by (pub_handler.cpp:183-230). *)
THEOREM FramesAreConsistent == Spec => []FrameConsistent
<1> QED  BY IInvHolds, InitFrame, StepFrame, PTL DEF Spec

-----------------------------------------------------------------------------
(* The host's frame clock. *)

(* No frame is counted before the clock is started. *)
ClockInv == RateKept /\ (first => frames = 0)

LEMMA InitClock == Init => ClockInv
BY DEF Init, ClockInv, RateKept

LEMMA Later ==
  ASSUME NEW t \in Nat, NEW u \in Nat, NEW s \in Nat, NEW d \in Nat, d <= t - s, u >= t
  PROVE  d <= u - s
OBVIOUS

LEMMA StepClock == IInv /\ ClockInv /\ [Next]_vars => ClockInv'
<1> SUFFICES ASSUME IInv, ClockInv, [Next]_vars PROVE ClockInv'
  OBVIOUS
<1>0. /\ now \in Nat /\ last_pub_time \in Nat /\ frames \in Nat /\ start \in Nat
      /\ Interval \in Nat /\ first \in BOOLEAN /\ frames * Interval \in Nat
  BY PubAssumption DEF IInv, TypeOK
<1>1. ASSUME UNCHANGED timer, now' \in Nat, now' >= now PROVE ClockInv'
  <2>1. /\ first' = first /\ last_pub_time' = last_pub_time /\ start' = start
        /\ frames' = frames
    BY <1>1 DEF timer
  <2>2. RateKept'
    <3> SUFFICES ASSUME ~first'
        PROVE  frames' * Interval <= now' - start' /\ last_pub_time' = start' + frames' * Interval
      BY DEF RateKept
    <3>1. ~first
      BY <2>1
    <3>2. frames * Interval <= now - start /\ last_pub_time = start + frames * Interval
      BY <3>1 DEF ClockInv, RateKept
    <3>3. frames * Interval <= now' - start
      BY <1>0, <1>1, <3>2, Later
    <3> QED  BY <2>1, <3>2, <3>3
  <2> QED  BY <2>1, <2>2 DEF ClockInv
<1>2. CASE CheckTimerFirst
  <2>1. now' = now /\ first /\ last_pub_time' = now /\ start' = now /\ frames' = frames
    BY <1>2 DEF CheckTimerFirst
  <2>2. frames = 0
    BY <2>1 DEF ClockInv
  <2> QED  BY <1>0, <1>2, <2>1, <2>2 DEF CheckTimerFirst, ClockInv, RateKept
<1>3. CASE CheckTimerHost
  <2>1. CASE now - last_pub_time >= Interval
    <3>1. /\ last_pub_time' = last_pub_time + Interval /\ frames' = frames + 1
          /\ first' = first /\ ~first /\ start' = start /\ now' = now
      BY <1>3, <2>1 DEF CheckTimerHost
    <3>2. (frames + 1) * Interval = frames * Interval + Interval
      BY <1>0
    <3> QED  BY <1>0, <2>1, <3>1, <3>2 DEF ClockInv, RateKept
  <2>2. CASE ~(now - last_pub_time >= Interval)
    BY <1>0, <1>1, <1>3, <2>2 DEF CheckTimerHost, timer
  <2> QED  BY <2>1, <2>2
<1>4. CASE Tick
  BY <1>0, <1>1, <1>4 DEF Tick
<1>5. ASSUME NEW h \in Handles, NEW sync \in TimeTypes, OnPacket(h, sync) PROVE ClockInv'
  BY <1>0, <1>1, <1>5 DEF OnPacket
<1>6. ASSUME NEW sync \in TimeTypes, OnImuPacket(sync) PROVE ClockInv'
  BY <1>0, <1>1, <1>6 DEF OnImuPacket
<1>7. CASE \/ PushPacket \/ Notify \/ RequestExit \/ WaitTimeout \/ TestQuit \/ WaitForPacket
           \/ WakeInVain \/ PopPacket \/ PointCloudProcess \/ CheckTimerSync
  BY <1>0, <1>1, <1>7 DEF PushPacket, Notify, RequestExit, WaitTimeout, TestQuit,
     WaitForPacket, WakeInVain, PopPacket, PointCloudProcess, CheckTimerSync
<1>8. CASE UNCHANGED vars
  BY <1>0, <1>1, <1>8 DEF vars, timer
<1> QED
  BY <1>2, <1>3, <1>4, <1>5, <1>6, <1>7, <1>8 DEF Next, Process

(* Frames by the host's clock neither exceed their rate nor lose their phase,
   for any interval and any delays (pub_handler.cpp:202-212). *)
THEOREM RateIsKept == Spec => []RateKept
<1>1. ClockInv => RateKept
  BY DEF ClockInv
<1> QED  BY <1>1, IInvHolds, InitClock, StepClock, PTL DEF Spec

-----------------------------------------------------------------------------
(* Every packet once.                                                       *)

(* The packets of h in the sequence held are those after lo up to hi, in their
   order. *)
Of(held, h) == {k \in DOMAIN held : held[k].h = h /\ held[k].known}

InOrder(held, h, lo, hi) ==
  /\ \A n \in lo + 1 .. hi : \E k \in Of(held, h) : held[k].seq = n
  /\ \A k \in Of(held, h) : held[k].seq \in lo + 1 .. hi
  /\ \A j, k \in Of(held, h) : j < k => held[j].seq < held[k].seq

CloudInOrder(h) ==
  \A k \in DOMAIN points_clouds[h] : points_clouds[h][k].seq = published[h] + k

OnceInv ==
  \A h \in Handles : /\ CloudInOrder(h)
                     /\ InOrder(Held, h, Taken(h), received[h].seq)
                     /\ Taken(h) <= received[h].seq

LEMMA OnceIsOnce == OnceInv => EachPacketOnce
BY DEF OnceInv, EachPacketOnce, CloudInOrder, InOrder, Of, Positions

(* A packet arrives behind the others. *)
LEMMA Arrive ==
  ASSUME NEW held \in Seq(Packets), NEW p \in Packets, NEW h, NEW lo \in Nat, NEW hi \in Nat,
         lo <= hi, InOrder(held, h, lo, hi)
  PROVE  /\ p.h = h /\ p.known /\ p.seq = hi + 1 => InOrder(Append(held, p), h, lo, hi + 1)
         /\ ~(p.h = h /\ p.known) => InOrder(Append(held, p), h, lo, hi)
<1> DEFINE new == Append(held, p)
           last == Len(held) + 1
<1>1. /\ DOMAIN held = 1 .. Len(held) /\ Len(held) \in Nat
      /\ DOMAIN new = 1 .. last /\ new[last] = p
      /\ \A k \in DOMAIN held : new[k] = held[k]
  BY AppendProperties, LenProperties
<1>2. \A k \in DOMAIN held : k < last /\ k \in DOMAIN new
  BY <1>1
<1>3. \A k \in DOMAIN new : k \in DOMAIN held \/ k = last
  BY <1>1
<1> HIDE DEF new, last
<1>4. ASSUME ~(p.h = h /\ p.known) PROVE InOrder(new, h, lo, hi)
  <2>1. Of(new, h) = Of(held, h)
    BY <1>1, <1>2, <1>3, <1>4 DEF Of
  <2>2. \A k \in Of(held, h) : new[k] = held[k]
    BY <1>1 DEF Of
  <2> QED  BY <2>1, <2>2 DEF InOrder
<1>5. ASSUME p.h = h, p.known, p.seq = hi + 1 PROVE InOrder(new, h, lo, hi + 1)
  <2>1. Of(new, h) = Of(held, h) \cup {last}
    <3>1. last \in DOMAIN new
      BY <1>1 DEF last
    <3> QED  BY <1>1, <1>2, <1>3, <1>5, <3>1 DEF Of
  <2>2. \A k \in Of(held, h) : /\ new[k] = held[k] /\ k < last /\ k \in Nat
                               /\ held[k].seq \in lo + 1 .. hi
    BY <1>1, <1>2 DEF Of, InOrder
  <2>3. new[last].seq = hi + 1
    BY <1>1, <1>5
  <2>4. \A n \in lo + 1 .. hi + 1 : \E k \in Of(new, h) : new[k].seq = n
    <3> SUFFICES ASSUME NEW n \in lo + 1 .. hi + 1 PROVE \E k \in Of(new, h) : new[k].seq = n
      OBVIOUS
    <3>1. CASE n = hi + 1
      BY <2>1, <2>3, <3>1
    <3>2. CASE n # hi + 1
      <4>1. n \in lo + 1 .. hi
        BY <3>2
      <4> QED  BY <2>1, <2>2, <4>1 DEF InOrder
    <3> QED  BY <3>1, <3>2
  <2>5. \A k \in Of(new, h) : new[k].seq \in lo + 1 .. hi + 1
    BY <2>1, <2>2, <2>3
  <2>6. \A j, k \in Of(new, h) : j < k => new[j].seq < new[k].seq
    <3> SUFFICES ASSUME NEW j \in Of(new, h), NEW k \in Of(new, h), j < k
        PROVE  new[j].seq < new[k].seq
      OBVIOUS
    <3>0. last \in Nat
      BY <1>1 DEF last
    <3>1. j \in Of(held, h)
      BY <2>1, <2>2, <3>0
    <3>2. CASE k = last
      BY <2>2, <2>3, <3>1, <3>2
    <3>3. CASE k \in Of(held, h)
      BY <2>2, <3>1, <3>3 DEF InOrder
    <3> QED  BY <2>1, <3>2, <3>3
  <2> QED  BY <2>4, <2>5, <2>6 DEF InOrder
<1> QED  BY <1>4, <1>5 DEF new

(* The first one leaves; if it is one of h, it is the next one of h. *)
LEMMA Leave ==
  ASSUME NEW held \in Seq(Packets), held # <<>>, NEW h, NEW lo \in Nat, NEW hi \in Nat,
         InOrder(held, h, lo, hi)
  PROVE  /\ held[1].h = h /\ held[1].known
              => held[1].seq = lo + 1 /\ lo + 1 <= hi /\ InOrder(Tail(held), h, lo + 1, hi)
         /\ ~(held[1].h = h /\ held[1].known) => InOrder(Tail(held), h, lo, hi)
<1> DEFINE rest == Tail(held)
<1>1. /\ DOMAIN held = 1 .. Len(held) /\ Len(held) \in Nat \ {0}
      /\ DOMAIN rest = 1 .. Len(held) - 1
      /\ \A k \in DOMAIN rest : rest[k] = held[k + 1]
  BY HeadTailProperties, LenProperties, EmptySeq
<1> HIDE DEF rest
<1>2. \A k \in Of(rest, h) : k + 1 \in Of(held, h) /\ rest[k] = held[k + 1] /\ k \in Nat \ {0}
  BY <1>1 DEF Of
<1>3. \A k \in Of(held, h) : k # 1 => k - 1 \in Of(rest, h) /\ k - 1 + 1 = k /\ k \in Nat /\ k > 1
  BY <1>1 DEF Of
<1>4. \A j, k \in Of(rest, h) : j < k => rest[j].seq < rest[k].seq
  BY <1>2 DEF InOrder
<1>5. ASSUME ~(held[1].h = h /\ held[1].known) PROVE InOrder(rest, h, lo, hi)
  <2>1. 1 \notin Of(held, h)
    BY <1>5 DEF Of
  <2>2. \A n \in lo + 1 .. hi : \E k \in Of(rest, h) : rest[k].seq = n
    <3> SUFFICES ASSUME NEW n \in lo + 1 .. hi PROVE \E k \in Of(rest, h) : rest[k].seq = n
      OBVIOUS
    <3>1. PICK k \in Of(held, h) : held[k].seq = n
      BY DEF InOrder
    <3>2. k - 1 \in Of(rest, h) /\ rest[k - 1] = held[k]
      BY <1>2, <1>3, <2>1
    <3> QED  BY <3>1, <3>2
  <2>3. \A k \in Of(rest, h) : rest[k].seq \in lo + 1 .. hi
    BY <1>2 DEF InOrder
  <2> QED  BY <1>4, <2>2, <2>3 DEF InOrder
<1>6. ASSUME held[1].h = h, held[1].known
      PROVE  held[1].seq = lo + 1 /\ lo + 1 <= hi /\ InOrder(rest, h, lo + 1, hi)
  <2>1. 1 \in Of(held, h)
    BY <1>1, <1>6 DEF Of
  <2>2. held[1].seq \in lo + 1 .. hi
    BY <2>1 DEF InOrder
  <2>3. \A k \in Of(held, h) : k # 1 => held[1].seq < held[k].seq
    BY <1>3, <2>1 DEF InOrder
  <2>4. held[1].seq = lo + 1
    <3>1. PICK k \in Of(held, h) : held[k].seq = lo + 1
      BY <2>2 DEF InOrder
    <3> QED  BY <2>2, <2>3, <3>1
  <2>5. \A n \in lo + 1 + 1 .. hi : \E k \in Of(rest, h) : rest[k].seq = n
    <3> SUFFICES ASSUME NEW n \in lo + 1 + 1 .. hi PROVE \E k \in Of(rest, h) : rest[k].seq = n
      OBVIOUS
    <3>1. PICK k \in Of(held, h) : held[k].seq = n
      BY DEF InOrder
    <3>2. k # 1
      BY <2>4, <3>1
    <3>3. k - 1 \in Of(rest, h) /\ rest[k - 1] = held[k]
      BY <1>2, <1>3, <3>2
    <3> QED  BY <3>1, <3>3
  <2>6. \A k \in Of(rest, h) : rest[k].seq \in lo + 1 + 1 .. hi
    <3> SUFFICES ASSUME NEW k \in Of(rest, h) PROVE rest[k].seq \in lo + 1 + 1 .. hi
      OBVIOUS
    <3>1. k + 1 \in Of(held, h) /\ k + 1 # 1 /\ rest[k] = held[k + 1]
      BY <1>2
    <3>2. held[k + 1].seq \in lo + 1 .. hi /\ lo + 1 < held[k + 1].seq
      BY <2>3, <2>4, <3>1 DEF InOrder
    <3> QED  BY <3>1, <3>2
  <2> QED  BY <1>4, <2>2, <2>4, <2>5, <2>6 DEF InOrder
<1> QED  BY <1>5, <1>6 DEF rest

(* The three parts of Held. *)
InHand == IF pc = "process" THEN <<raw_data>> ELSE <<>>

Arriving == IF spc = "push" THEN <<packet>> ELSE <<>>

LEMMA HeldParts ==
  ASSUME TypeOK
  PROVE  /\ InHand \in Seq(Packets) /\ raw_packet_queue \in Seq(Packets)
         /\ Arriving \in Seq(Packets)
         /\ Held = (InHand \o raw_packet_queue) \o Arriving
         /\ Held \in Seq(Packets)
         /\ \A h \in Handles : /\ Taken(h) \in Nat /\ received[h].seq \in Nat
                               /\ points_clouds[h] \in Seq(Packets) /\ published[h] \in Nat
<1>1. InHand \in Seq(Packets) /\ raw_packet_queue \in Seq(Packets) /\ Arriving \in Seq(Packets)
  BY DEF TypeOK, InHand, Arriving
<1>2. Held = (InHand \o raw_packet_queue) \o Arriving
  BY DEF Held, InHand, Arriving
<1>3. Held \in Seq(Packets)
  BY <1>1, <1>2, ConcatProperties
<1>4. \A h \in Handles : /\ Taken(h) \in Nat /\ received[h].seq \in Nat
                         /\ points_clouds[h] \in Seq(Packets) /\ published[h] \in Nat
  BY DEF TypeOK, Taken
<1> QED  BY <1>1, <1>2, <1>3, <1>4

LEMMA HeldNext ==
  ASSUME TypeOK'
  PROVE  /\ Held' = (InHand' \o raw_packet_queue') \o Arriving'
         /\ raw_packet_queue' \in Seq(Packets)
BY DEF Held, InHand, Arriving, TypeOK

LEMMA PushMoves ==
  ASSUME TypeOK, TypeOK', PushPacket
  PROVE  Held' = Held
<1>1. /\ Arriving = <<packet>> /\ Arriving' = <<>> /\ InHand' = InHand
      /\ raw_packet_queue' = Append(raw_packet_queue, packet) /\ packet \in Packets
  BY DEF PushPacket, Arriving, InHand, TypeOK
<1>2. raw_packet_queue' = raw_packet_queue \o <<packet>>
  BY <1>1, HeldParts, AppendIsConcat
<1>3. Held' = InHand \o (raw_packet_queue \o <<packet>>)
  <2>1. Held' = (InHand \o raw_packet_queue') \o <<>>
    BY <1>1, HeldNext
  <2>2. InHand \o raw_packet_queue' \in Seq(Packets)
    BY HeldParts, HeldNext, ConcatProperties
  <2> QED  BY <1>2, <2>1, <2>2, ConcatEmptySeq
<1>4. Held = (InHand \o raw_packet_queue) \o <<packet>>
  BY <1>1, HeldParts
<1>5. <<packet>> \in Seq(Packets)
  BY <1>1
<1> QED  BY <1>3, <1>4, <1>5, HeldParts, ConcatAssociative

LEMMA PopMoves ==
  ASSUME TypeOK, TypeOK', PopPacket
  PROVE  Held' = Held
<1>1. /\ InHand = <<>> /\ raw_packet_queue # <<>> /\ Arriving' = Arriving
      /\ InHand' = <<Head(raw_packet_queue)>> /\ raw_packet_queue' = Tail(raw_packet_queue)
  BY DEF PopPacket, InHand, Arriving, sdk
<1>2. <<Head(raw_packet_queue)>> \o Tail(raw_packet_queue) = raw_packet_queue
  BY <1>1, HeldParts
<1>3. InHand \o raw_packet_queue = raw_packet_queue
  BY <1>1, HeldParts, ConcatEmptySeq
<1>4. Held = raw_packet_queue \o Arriving
  BY <1>3, HeldParts
<1>5. Held' = raw_packet_queue \o Arriving
  BY <1>1, <1>2, HeldNext
<1> QED  BY <1>4, <1>5

LEMMA ProcessTakes ==
  ASSUME TypeOK, TypeOK', PointCloudProcess
  PROVE  Held # <<>> /\ Held[1] = raw_data /\ Held' = Tail(Held)
<1>1. /\ InHand = <<raw_data>> /\ InHand' = <<>> /\ Arriving' = Arriving
      /\ raw_packet_queue' = raw_packet_queue /\ raw_data \in Packets
  BY DEF PointCloudProcess, InHand, Arriving, sdk, TypeOK
<1> DEFINE rest == raw_packet_queue \o Arriving
<1>2. rest \in Seq(Packets)
  BY HeldParts, ConcatProperties
<1>3. Held = <<raw_data>> \o rest
  <2>1. InHand \in Seq(Packets) /\ raw_packet_queue \in Seq(Packets) /\ Arriving \in Seq(Packets)
    BY HeldParts
  <2>2. (InHand \o raw_packet_queue) \o Arriving = InHand \o (raw_packet_queue \o Arriving)
    BY <2>1, ConcatAssociative
  <2>3. Held = InHand \o (raw_packet_queue \o Arriving)
    BY <2>2, HeldParts
  <2> QED  BY <1>1, <2>3
<1>4. Held' = rest
  <2>1. Held' = (<<>> \o raw_packet_queue) \o Arriving
    BY <1>1, HeldNext
  <2>2. <<>> \o raw_packet_queue = raw_packet_queue
    BY HeldParts, ConcatEmptySeq
  <2> QED  BY <2>1, <2>2
<1> HIDE DEF rest
<1> QED  BY <1>1, <1>2, <1>3, <1>4, HeldParts

LEMMA ArriveLast ==
  ASSUME TypeOK, TypeOK', NEW g \in Handles, NEW sync \in TimeTypes, OnPacket(g, sync)
  PROVE  Held' = Append(Held, packet')
<1>1. /\ InHand' = InHand /\ raw_packet_queue' = raw_packet_queue
      /\ Arriving = <<>> /\ Arriving' = <<packet'>>
  BY DEF OnPacket, InHand, Arriving
<1>2. Held = InHand \o raw_packet_queue
  BY <1>1, HeldParts, ConcatProperties, ConcatEmptySeq
<1>3. Held' = Held \o <<packet'>>
  BY <1>1, <1>2, HeldNext
<1>4. packet' \in Packets
  BY OnPacketTypes
<1> QED  BY <1>3, <1>4, HeldParts, AppendIsConcat

(* A step that only makes a frame, or that moves nothing. *)
LEMMA OnceStays ==
  ASSUME TypeOK, TypeOK', OnceInv, Held' = Held, received' = received,
         UNCHANGED <<points_clouds, published>>
  PROVE  OnceInv'
<1>1. \A h \in Handles : Taken(h)' = Taken(h) /\ CloudInOrder(h)' = CloudInOrder(h)
  BY DEF Taken, CloudInOrder
<1> QED  BY <1>1 DEF OnceInv, InOrder, Of

LEMMA OncePublished ==
  ASSUME TypeOK, TypeOK', OnceInv, Held' = Held, received' = received,
         NEW hs \in SUBSET Handles, PublishPointCloud(hs)
  PROVE  OnceInv'
<1> SUFFICES ASSUME NEW h \in Handles
    PROVE  /\ CloudInOrder(h)' /\ InOrder(Held, h, Taken(h), received[h].seq)'
           /\ Taken(h)' <= received'[h].seq
  BY DEF OnceInv
<1>0. CloudInOrder(h) /\ InOrder(Held, h, Taken(h), received[h].seq) /\ Taken(h) <= received[h].seq
  BY DEF OnceInv
<1>1. CASE h \in hs
  <2>1. points_clouds'[h] = <<>> /\ published'[h] = published[h] + Len(points_clouds[h])
    BY <1>1, PublishCounts
  <2>2. Taken(h)' = Taken(h) + 0 /\ CloudInOrder(h)'
    BY <2>1, HeldParts DEF Taken, CloudInOrder
  <2>3. Taken(h)' = Taken(h)
    BY <2>2, HeldParts
  <2> QED  BY <1>0, <2>2, <2>3 DEF InOrder, Of
<1>2. CASE h \notin hs
  <2>1. points_clouds'[h] = points_clouds[h] /\ published'[h] = published[h]
    BY <1>2, PublishCounts
  <2>2. Taken(h)' = Taken(h) /\ CloudInOrder(h)' = CloudInOrder(h)
    BY <2>1 DEF Taken, CloudInOrder
  <2> QED  BY <1>0, <2>2 DEF InOrder, Of
<1> QED  BY <1>1, <1>2

LEMMA OnceReceived ==
  ASSUME TypeOK, TypeOK', OnceInv, NEW g \in Handles, NEW sync \in TimeTypes, OnPacket(g, sync)
  PROVE  OnceInv'
<1>1. PICK s \in StampsOf(g, sync), known \in BOOLEAN :
        /\ packet' = [h |-> g, seq |-> received[g].seq + (IF known THEN 1 ELSE 0),
                      first |-> s[1], last |-> s[2], known |-> known]
        /\ received' = [received EXCEPT ![g] =
                          [count |-> @.count + 1, seq |-> packet'.seq, last |-> s[2]]]
  BY DEF OnPacket
<1>2. /\ packet'.h = g /\ packet' \in Packets
      /\ packet'.known => packet'.seq = received[g].seq + 1
      /\ ~packet'.known => packet'.seq = received[g].seq
  BY <1>1, HeldParts, OnPacketTypes
<1>3. /\ \A h \in Handles \ {g} : received'[h].seq = received[h].seq
      /\ received'[g].seq = packet'.seq
  BY <1>1 DEF TypeOK
<1>4. Held' = Append(Held, packet')
  BY ArriveLast
<1> SUFFICES ASSUME NEW h \in Handles
    PROVE  /\ CloudInOrder(h)' /\ InOrder(Held, h, Taken(h), received[h].seq)'
           /\ Taken(h)' <= received'[h].seq
  BY DEF OnceInv
<1>5. CloudInOrder(h) /\ InOrder(Held, h, Taken(h), received[h].seq) /\ Taken(h) <= received[h].seq
  BY DEF OnceInv
<1>6. Taken(h)' = Taken(h) /\ CloudInOrder(h)' = CloudInOrder(h)
  BY DEF OnPacket, clouds, output, Taken, CloudInOrder
<1>7. CASE h = g /\ packet'.known
  <2>1. InOrder(Append(Held, packet'), h, Taken(h), received[h].seq + 1)
    BY <1>2, <1>5, <1>7, Arrive, HeldParts
  <2>2. received'[h].seq = received[h].seq + 1
    BY <1>2, <1>3, <1>7
  <2>3. InOrder(Held', h, Taken(h)', received'[h].seq)
    BY <1>4, <1>6, <2>1, <2>2
  <2>4. Taken(h)' <= received'[h].seq
    BY <1>5, <1>6, <2>2, HeldParts
  <2> QED  BY <1>5, <1>6, <2>3, <2>4 DEF InOrder, Of
<1>8. CASE ~(h = g /\ packet'.known)
  <2>1. InOrder(Append(Held, packet'), h, Taken(h), received[h].seq)
    BY <1>2, <1>5, <1>8, Arrive, HeldParts
  <2>2. received'[h].seq = received[h].seq
    BY <1>2, <1>3, <1>8
  <2> QED  BY <1>4, <1>5, <1>6, <2>1, <2>2 DEF InOrder, Of
<1> QED  BY <1>7, <1>8

LEMMA OnceProcessed ==
  ASSUME TypeOK, TypeOK', SendersKnown, OnceInv, PointCloudProcess
  PROVE  OnceInv'
<1>1. /\ raw_data.h \in Handles /\ raw_data \in Packets
      /\ published' = published /\ received' = received
      /\ points_clouds' = IF raw_data.known
                            THEN [points_clouds EXCEPT ![raw_data.h] = Append(@, raw_data)]
                            ELSE points_clouds
  BY DEF PointCloudProcess, SendersKnown, TypeOK, output, sdk
<1> SUFFICES ASSUME NEW h \in Handles
    PROVE  /\ CloudInOrder(h)' /\ InOrder(Held, h, Taken(h), received[h].seq)'
           /\ Taken(h)' <= received'[h].seq
  BY DEF OnceInv
<1>2. CloudInOrder(h) /\ InOrder(Held, h, Taken(h), received[h].seq) /\ Taken(h) <= received[h].seq
  BY DEF OnceInv
<1>3. CASE h = raw_data.h /\ raw_data.known
  <2>1. raw_data.seq = Taken(h) + 1 /\ Taken(h) + 1 <= received[h].seq
        /\ InOrder(Tail(Held), h, Taken(h) + 1, received[h].seq)
    BY <1>2, <1>3, Leave, ProcessTakes, HeldParts
  <2>2. points_clouds'[h] = Append(points_clouds[h], raw_data) /\ published'[h] = published[h]
    BY <1>1, <1>3 DEF TypeOK
  <2>3. Taken(h)' = Taken(h) + 1
    <3>1. Len(points_clouds'[h]) = Len(points_clouds[h]) + 1 /\ Len(points_clouds[h]) \in Nat
      BY <1>1, <2>2, HeldParts
    <3> QED  BY <2>2, <3>1, HeldParts DEF Taken
  <2>4. CloudInOrder(h)'
    <3> SUFFICES ASSUME NEW k \in DOMAIN points_clouds'[h]
        PROVE  points_clouds'[h][k].seq = published'[h] + k
      BY DEF CloudInOrder
    <3>1. k \in 1 .. Len(points_clouds[h]) + 1
      BY <1>1, <2>2, HeldParts
    <3>2. CASE k = Len(points_clouds[h]) + 1
      <4>1. points_clouds'[h][k] = raw_data
        BY <1>1, <2>2, <3>2, HeldParts
      <4>2. raw_data.seq = published[h] + Len(points_clouds[h]) + 1
        BY <2>1 DEF Taken
      <4>3. published[h] \in Nat /\ Len(points_clouds[h]) \in Nat
        BY HeldParts
      <4> QED  BY <2>2, <3>2, <4>1, <4>2, <4>3
    <3>3. CASE k # Len(points_clouds[h]) + 1
      <4>1. k \in DOMAIN points_clouds[h] /\ points_clouds'[h][k] = points_clouds[h][k]
        BY <1>1, <2>2, <3>1, <3>3, HeldParts
      <4> QED  BY <1>2, <2>2, <4>1 DEF CloudInOrder
    <3> QED  BY <3>2, <3>3
  <2> QED  BY <1>1, <2>1, <2>3, <2>4, ProcessTakes DEF InOrder, Of
<1>4. CASE ~(h = raw_data.h /\ raw_data.known)
  <2>1. InOrder(Tail(Held), h, Taken(h), received[h].seq)
    BY <1>2, <1>4, Leave, ProcessTakes, HeldParts
  <2>2. points_clouds'[h] = points_clouds[h]
    BY <1>1, <1>4 DEF TypeOK
  <2>3. Taken(h)' = Taken(h) /\ CloudInOrder(h)' = CloudInOrder(h)
    BY <1>1, <2>2 DEF Taken, CloudInOrder
  <2>4. InOrder(Held', h, Taken(h)', received'[h].seq)
    BY <1>1, <2>1, <2>3, ProcessTakes
  <2>5. Taken(h)' <= received'[h].seq /\ CloudInOrder(h)'
    BY <1>1, <1>2, <2>3
  <2> QED  BY <2>4, <2>5 DEF InOrder, Of
<1> QED  BY <1>3, <1>4

(* Neither the places of the packets nor what is counted of them changes. *)
LEMMA OnceUntouched ==
  ASSUME TypeOK, TypeOK', OnceInv,
         UNCHANGED <<spc, packet, raw_packet_queue, raw_data, received, points_clouds, published>>,
         (pc' = "process") = (pc = "process")
  PROVE  OnceInv'
<1>1. Held' = Held
  BY DEF Held
<1> QED  BY <1>1, OnceStays

LEMMA StepOnce == IInv /\ OnceInv /\ [Next]_vars => OnceInv'
<1> SUFFICES ASSUME IInv, OnceInv, [Next]_vars PROVE OnceInv'
  OBVIOUS
<1>0. TypeOK /\ TypeOK' /\ SendersKnown
  BY StepIInv DEF IInv
<1>1. ASSUME NEW h \in Handles, NEW sync \in TimeTypes, OnPacket(h, sync) PROVE OnceInv'
  BY <1>0, <1>1, OnceReceived
<1>2. CASE PushPacket
  BY <1>0, <1>2, PushMoves, OnceStays DEF PushPacket, clouds, output
<1>3. CASE PopPacket
  BY <1>0, <1>3, PopMoves, OnceStays DEF PopPacket, sdk, clouds, output
<1>4. CASE PointCloudProcess
  BY <1>0, <1>4, OnceProcessed
<1>5. CASE Notify
  <2>1. Held' = Held
    BY <1>5 DEF Notify, Held
  <2> QED  BY <1>0, <1>5, <2>1, OnceStays DEF Notify, clouds, output
<1>6. CASE CheckTimerSync
  <2>1. Held' = Held /\ received' = received
    BY <1>6 DEF CheckTimerSync, Held, sdk
  <2>2. {raw_data.h} \in SUBSET Handles
    BY <1>0, <1>6 DEF CheckTimerSync, SendersKnown
  <2> QED  BY <1>0, <1>6, <2>1, <2>2, OncePublished, OnceStays DEF CheckTimerSync, output
<1>7. CASE CheckTimerHost
  <2>1. Held' = Held /\ received' = received
    BY <1>7 DEF CheckTimerHost, Held, sdk
  <2>2. handlers \in SUBSET Handles
    BY <1>0 DEF TypeOK
  <2> QED  BY <1>0, <1>7, <2>1, <2>2, OncePublished, OnceStays DEF CheckTimerHost, output
<1>8. CASE CheckTimerFirst
  BY <1>0, <1>8, OnceUntouched DEF CheckTimerFirst, sdk, clouds, output
<1>9. CASE Tick \/ RequestExit
  BY <1>0, <1>9, OnceUntouched DEF Tick, RequestExit, sdk, clouds, output
<1>10. ASSUME NEW sync \in TimeTypes, OnImuPacket(sync) PROVE OnceInv'
  BY <1>0, <1>10, OnceUntouched DEF OnImuPacket, clouds, output
<1>11. CASE TestQuit \/ WaitForPacket \/ WaitTimeout \/ WakeInVain
  BY <1>0, <1>11, OnceUntouched
  DEF TestQuit, WaitForPacket, WaitTimeout, WakeInVain, sdk, clouds, output
<1>12. CASE UNCHANGED vars
  BY <1>0, <1>12, OnceUntouched DEF vars
<1> QED
  BY <1>1, <1>2, <1>3, <1>4, <1>5, <1>6, <1>7, <1>8, <1>9, <1>10, <1>11, <1>12
  DEF Next, Process

LEMMA InitOnce == Init => OnceInv
<1> SUFFICES ASSUME Init, NEW h \in Handles
    PROVE  /\ CloudInOrder(h) /\ InOrder(Held, h, Taken(h), received[h].seq)
           /\ Taken(h) <= received[h].seq
  BY DEF OnceInv
<1>1. points_clouds[h] = <<>> /\ published[h] = 0 /\ received[h].seq = 0
  BY DEF Init
<1>2. Taken(h) = 0 /\ CloudInOrder(h)
  BY <1>1 DEF Taken, CloudInOrder
<1>3. InHand = <<>> /\ raw_packet_queue = <<>> /\ Arriving = <<>>
  BY DEF Init, InHand, Arriving
<1>4. Held = <<>>
  BY <1>3 DEF Held, InHand, Arriving
<1>5. Of(Held, h) = {}
  BY <1>4 DEF Of
<1> QED  BY <1>1, <1>2, <1>5 DEF InOrder

(* No packet is lost, published twice or moved before another of its lidar,
   whatever clock makes the frames and however often that changes
   (pub_handler.cpp:110-114, 169-258). *)
THEOREM PacketsOnce == Spec => []EachPacketOnce
<1> QED  BY IInvHolds, InitOnce, StepOnce, OnceIsOnce, PTL DEF Spec

-----------------------------------------------------------------------------
(***************************************************************************)
(* Frames on time.                                                         *)
(*                                                                         *)
(* A multiple x of the interval opens a window of a millisecond in which a *)
(* frame can become due.  A point cloud that begins less than a window and *)
(* half a millisecond after x is due at the latest half a millisecond into *)
(* the window after x: by then it spans the interval less a millisecond,   *)
(* and a lidar without gaps has a packet that ends in the rest of the      *)
(* window.  Every frame but the first begins after the window in which the *)
(* one before it ended.                                                    *)
(***************************************************************************)


Half == RatioOfMs \div 2

(* The premises: lidar clocks only, no gaps, packets that last no longer than
   half a millisecond, and whole milliseconds in an interval. *)
Steady ==
  /\ Dense
  /\ TimeTypes = {TRUE}
  /\ MaxDuration <= Half
  /\ Interval % RatioOfMs = 0

-----------------------------------------------------------------------------
(* Arithmetic.                                                              *)

Multiples == {j * Interval : j \in Nat}

LEMMA Units ==
  /\ RatioOfMs \in Nat \ {0} /\ Interval \in Nat \ {0} /\ Interval >= RatioOfMs
  /\ Half \in Nat /\ 2 * Half <= RatioOfMs
  /\ Word \in Nat \ {0}
BY PubAssumption DEF Half

LEMMA QuotientRemainder ==
  ASSUME NEW n \in Nat \ {0}, NEW t \in Nat
  PROVE  /\ t \div n \in Nat /\ t % n \in 0 .. n - 1
         /\ t = n * (t \div n) + (t % n)
BY SMT

LEMMA QuotientUnique ==
  ASSUME NEW n \in Nat \ {0}, NEW t \in Nat, NEW q \in Nat, NEW r \in 0 .. n - 1, t = n * q + r
  PROVE  t \div n = q /\ t % n = r
BY SMTT(30)

LEMMA MultipleFacts ==
  ASSUME NEW x \in Multiples
  PROVE  x \in Nat /\ x + Interval \in Multiples
<1>1. PICK j \in Nat : x = j * Interval
  BY DEF Multiples
<1>2. x + Interval = (j + 1) * Interval
  BY <1>1, Units
<1> QED  BY <1>1, <1>2, Units DEF Multiples

LEMMA ZeroIsMultiple == 0 \in Multiples
<1>1. 0 = 0 * Interval
  BY Units
<1> QED  BY <1>1 DEF Multiples

InWindow(t) == \E x \in Multiples : x <= t /\ t < x + RatioOfMs

(* What CheckTimer tests of a millisecond. *)
LEMMA WindowIsTested ==
  ASSUME Steady, NEW t \in Nat
  PROVE  InWindow(t) <=> (t \div RatioOfMs) % (Interval \div RatioOfMs) = 0
<1> DEFINE c == Interval \div RatioOfMs
           ms == t \div RatioOfMs
<1>1. c \in Nat /\ Interval = RatioOfMs * c
  <2>1. Interval % RatioOfMs = 0
    BY DEF Steady
  <2>2. c \in Nat /\ Interval = RatioOfMs * c + (Interval % RatioOfMs) /\ RatioOfMs * c \in Int
    BY Units, QuotientRemainder
  <2> QED  BY <2>1, <2>2
<1>2. c \in Nat \ {0}
  BY <1>1, Units
<1>3. ms \in Nat /\ t % RatioOfMs \in 0 .. RatioOfMs - 1 /\ t = RatioOfMs * ms + (t % RatioOfMs)
  BY Units, QuotientRemainder
<1>4. ms \div c \in Nat /\ ms % c \in 0 .. c - 1 /\ ms = c * (ms \div c) + (ms % c)
  BY <1>2, <1>3, QuotientRemainder
<1>5. ASSUME ms % c = 0 PROVE InWindow(t)
  <2> DEFINE q == ms \div c
             x == q * Interval
  <2>1. ms = c * q /\ q \in Nat
    BY <1>2, <1>4, <1>5
  <2> HIDE DEF c, ms, q
  <2>2. RatioOfMs * (c * q) = q * (RatioOfMs * c)
    BY <1>1, <2>1, Units
  <2>3. x = RatioOfMs * ms
    BY <1>1, <2>1, <2>2
  <2>4. x \in Multiples /\ x \in Nat
    BY <2>1, Units DEF Multiples
  <2>5. x <= t /\ t < x + RatioOfMs
    BY <1>3, <2>3, <2>4, Units
  <2> QED  BY <2>4, <2>5 DEF InWindow
<1>6. ASSUME InWindow(t) PROVE ms % c = 0
  <2>1. PICK j \in Nat : j * Interval <= t /\ t < j * Interval + RatioOfMs
    BY <1>6 DEF InWindow, Multiples
  <2> HIDE DEF c, ms
  <2>2. j * Interval = RatioOfMs * (c * j) /\ c * j \in Nat
    BY <1>1, Units
  <2>3. t - j * Interval \in 0 .. RatioOfMs - 1
    BY <2>1, <2>2, Units
  <2>4. t = RatioOfMs * (c * j) + (t - j * Interval)
    BY <2>2, <2>3, Units
  <2>5. ms = c * j
    BY <2>2, <2>3, <2>4, Units, QuotientUnique DEF ms
  <2>6. ms = c * j + 0 /\ 0 \in 0 .. c - 1
    BY <1>2, <2>2, <2>5
  <2> QED  BY <1>2, <1>3, <2>6, QuotientUnique
<1> QED  BY <1>5, <1>6

LEMMA NotZeroMs ==
  ASSUME NEW t \in Nat, t >= Interval
  PROVE  t \div RatioOfMs # 0
<1>1. t = RatioOfMs * (t \div RatioOfMs) + (t % RatioOfMs) /\ t % RatioOfMs < RatioOfMs
  BY Units, QuotientRemainder
<1> QED  BY <1>1, Units

LEMMA NoWrap == \A d \in 0 .. Word - 1 : d % Word = d
<1> TAKE d \in 0 .. Word - 1
<1>1. d \in Nat /\ d = Word * 0 + d
  BY Units
<1> QED  BY <1>1, Units, QuotientUnique

(* The window before which a stamp's frame began. *)
LEMMA WindowBefore ==
  ASSUME NEW b \in Nat
  PROVE  \E x \in Multiples : /\ b < x + RatioOfMs + Half
                              /\ x = 0 \/ x + RatioOfMs + Half <= b + Interval
<1>1. CASE b < RatioOfMs + Half
  BY <1>1, ZeroIsMultiple, Units
<1>2. CASE b >= RatioOfMs + Half
  <2> DEFINE y == b - RatioOfMs - Half
             q == y \div Interval
  <2>1. y \in Nat
    BY <1>2, Units
  <2>2. q \in Nat /\ y % Interval \in 0 .. Interval - 1 /\ y = Interval * q + (y % Interval)
    BY <2>1, Units, QuotientRemainder
  <2> HIDE DEF y, q
  <2>3. q * Interval \in Multiples /\ q * Interval = Interval * q
    <3>1. q * Interval \in Multiples
      BY <2>2 DEF Multiples
    <3> QED  BY <2>2, <3>1, Units
  <2>4. q * Interval + Interval \in Multiples /\ q * Interval \in Nat
    BY <2>3, MultipleFacts
  <2>5. q * Interval <= y /\ y < q * Interval + Interval
    BY <2>1, <2>2, <2>3, <2>4, Units
  <2> DEFINE x == q * Interval + Interval
  <2>6. x \in Multiples /\ b < x + RatioOfMs + Half /\ x + RatioOfMs + Half <= b + Interval
    BY <2>4, <2>5, Units DEF y
  <2> QED  BY <2>6
<1> QED  BY <1>1, <1>2, Units

-----------------------------------------------------------------------------
(* Point clouds from base time b to last stamp l.                           *)

Due(b, l) ==
  /\ (l \div RatioOfMs) % (Interval \div RatioOfMs) = 0
  /\ l \div RatioOfMs # 0
  /\ (l - b) % Word >= Interval - RatioOfMs

(* The cloud began after the window of x, but not long after, or is the first of
   its lidar; it has not passed the next window by more than slack. *)
Bounded(b, l, starting, slack) ==
  \E x \in Multiples :
    /\ b < x + RatioOfMs + Half
    /\ l < x + Interval + slack
    /\ IF starting THEN x = 0 \/ x + RatioOfMs + Half <= b + Interval ELSE x < b

LEMMA BeginFirst ==
  ASSUME NEW b \in Nat, NEW l \in Nat, l <= b + Half
  PROVE  Bounded(b, l, TRUE, RatioOfMs)
<1>1. PICK x \in Multiples : /\ b < x + RatioOfMs + Half
                             /\ x = 0 \/ x + RatioOfMs + Half <= b + Interval
  BY WindowBefore
<1>2. l < x + Interval + RatioOfMs
  BY <1>1, Units, MultipleFacts
<1> QED  BY <1>1, <1>2 DEF Bounded

LEMMA BeginNext ==
  ASSUME NEW w \in Nat, InWindow(w), NEW b \in Nat, NEW l \in Nat,
         w < b, b <= l, l <= w + Half
  PROVE  Bounded(b, l, FALSE, RatioOfMs)
<1>1. PICK x \in Multiples : x <= w /\ w < x + RatioOfMs
  BY DEF InWindow
<1>2. /\ x < b /\ b < x + RatioOfMs + Half /\ l < x + Interval + RatioOfMs
  BY <1>1, Units, MultipleFacts
<1> QED  BY <1>2 DEF Bounded

LEMMA Extend ==
  ASSUME NEW b \in Nat, NEW l \in Nat, NEW m \in Nat, NEW starting \in BOOLEAN,
         Bounded(b, l, starting, Half), m <= l + Half
  PROVE  Bounded(b, m, starting, RatioOfMs)
<1>1. PICK x \in Multiples :
        /\ b < x + RatioOfMs + Half
        /\ l < x + Interval + Half
        /\ IF starting THEN x = 0 \/ x + RatioOfMs + Half <= b + Interval ELSE x < b
  BY DEF Bounded
<1>2. m < x + Interval + RatioOfMs
  BY <1>1, Units, MultipleFacts
<1> QED  BY <1>1, <1>2 DEF Bounded

(* A cloud that has gone half a millisecond into the next window is due. *)
LEMMA Tested ==
  ASSUME Steady, NEW b \in Nat, NEW l \in Nat, NEW starting \in BOOLEAN,
         b <= l, l < Word, Bounded(b, l, starting, RatioOfMs)
  PROVE  /\ ~Due(b, l) => Bounded(b, l, starting, Half)
         /\ Due(b, l) => /\ InWindow(l)
                         /\ l - b < IF starting THEN 2 * Interval ELSE Interval + RatioOfMs
<1>1. PICK x \in Multiples :
        /\ b < x + RatioOfMs + Half
        /\ l < x + Interval + RatioOfMs
        /\ IF starting THEN x = 0 \/ x + RatioOfMs + Half <= b + Interval ELSE x < b
  BY DEF Bounded
<1>2. x \in Nat /\ x + Interval \in Multiples
  BY MultipleFacts
<1>3. ASSUME ~Due(b, l) PROVE Bounded(b, l, starting, Half)
  <2>1. l < x + Interval + Half
    <3>1. SUFFICES ASSUME l >= x + Interval + Half PROVE FALSE
      BY <1>2, Units
    <3>2. InWindow(l)
      BY <1>1, <1>2, <3>1, Units DEF InWindow
    <3>3. l \div RatioOfMs # 0
      BY <1>2, <3>1, Units, NotZeroMs
    <3>4. l - b \in 0 .. Word - 1 /\ l - b >= Interval - RatioOfMs
      BY <1>1, <1>2, <3>1, Units
    <3>5. (l - b) % Word >= Interval - RatioOfMs
      BY <3>4, NoWrap
    <3> QED  BY <1>3, <3>2, <3>3, <3>5, WindowIsTested DEF Due
  <2> QED  BY <1>1, <2>1 DEF Bounded
<1>4. ASSUME Due(b, l)
      PROVE  InWindow(l) /\ l - b < IF starting THEN 2 * Interval ELSE Interval + RatioOfMs
  <2>1. InWindow(l)
    BY <1>4, WindowIsTested DEF Due
  <2>2. CASE starting
    BY <1>1, <1>2, <2>1, <2>2, Units
  <2>3. CASE ~starting
    BY <1>1, <1>2, <2>1, <2>3, Units
  <2> QED  BY <2>2, <2>3
<1> QED  BY <1>3, <1>4

-----------------------------------------------------------------------------
(* Packets on their way.                                                    *)

Timed(p) == p.first <= p.last /\ p.last <= p.first + Half /\ p.last < Word

Follows(w, p) == w < p.first /\ p.last <= w + Half

(* The packets of h follow each other, and the last one is the last received. *)
Linked(held, h, rec) ==
  /\ \A k \in Of(held, h) : Timed(held[k])
  /\ \A j, k \in Of(held, h) :
       held[k].seq = held[j].seq + 1 => Follows(held[j].last, held[k])
  /\ \A k \in Of(held, h) : held[k].seq = rec.seq => held[k].last = rec.last

(* The first n packets of h end at w, and the next one follows them. *)
Continues(held, h, rec, n, w) ==
  /\ \A k \in Of(held, h) : held[k].seq = n + 1 => Follows(w, held[k])
  /\ rec.seq = n => rec.last = w

LEMMA OfAppend ==
  \A held \in Seq(Packets), p \in Packets : \A h : \A k \in Of(Append(held, p), h) :
    \/ k \in Of(held, h) /\ Append(held, p)[k] = held[k]
    \/ Append(held, p)[k] = p /\ p.h = h /\ p.known
<1> TAKE held \in Seq(Packets), p \in Packets
<1> TAKE h
<1> DEFINE new == Append(held, p)
<1>1. /\ DOMAIN held = 1 .. Len(held) /\ Len(held) \in Nat
      /\ DOMAIN new = 1 .. Len(held) + 1 /\ new[Len(held) + 1] = p
      /\ \A k \in DOMAIN held : new[k] = held[k]
  BY AppendProperties, LenProperties
<1>2. \A k \in DOMAIN new : k \in DOMAIN held \/ k = Len(held) + 1
  BY <1>1
<1> HIDE DEF new
<1>3. \A k \in Of(new, h) : \/ k \in Of(held, h) /\ new[k] = held[k]
                            \/ new[k] = p /\ p.h = h /\ p.known
  BY <1>1, <1>2 DEF Of
<1> QED  BY <1>3 DEF new

LEMMA OfTail ==
  ASSUME NEW held \in Seq(Packets), held # <<>>, NEW h
  PROVE  \A k \in Of(Tail(held), h) : k + 1 \in Of(held, h) /\ Tail(held)[k] = held[k + 1]
<1> DEFINE rest == Tail(held)
<1>1. /\ DOMAIN held = 1 .. Len(held) /\ Len(held) \in Nat \ {0}
      /\ DOMAIN rest = 1 .. Len(held) - 1
      /\ \A k \in DOMAIN rest : rest[k] = held[k + 1]
  BY HeadTailProperties, LenProperties, EmptySeq
<1> HIDE DEF rest
<1>2. \A k \in Of(rest, h) : k + 1 \in Of(held, h) /\ rest[k] = held[k + 1]
  BY <1>1 DEF Of
<1> QED  BY <1>2 DEF rest

(* A packet of another lidar arrives. *)
LEMMA LinkOther ==
  ASSUME NEW held \in Seq(Packets), NEW p \in Packets, NEW h, NEW rec, Linked(held, h, rec)
  PROVE  p.h # h =>
           /\ Linked(Append(held, p), h, rec)
           /\ \A n, w : Continues(held, h, rec, n, w)
                          => Continues(Append(held, p), h, rec, n, w)
<1>1. \A k \in Of(Append(held, p), h) :
           \/ k \in Of(held, h) /\ Append(held, p)[k] = held[k]
           \/ Append(held, p)[k] = p /\ p.h = h /\ p.known
  BY OfAppend
<1> QED  BY <1>1 DEF Linked, Continues

LEMMA LinkArrives ==
  ASSUME NEW held \in Seq(Packets), NEW p \in Packets, NEW h,
         NEW rec \in [count : Nat, seq : Nat, last : Nat],
         NEW new \in [count : Nat, seq : Nat, last : Nat],
         NEW lo \in Nat, InOrder(held, h, lo, rec.seq), Linked(held, h, rec),
         p.seq = rec.seq + 1, Timed(p), rec.seq > 0 => Follows(rec.last, p),
         new.seq = p.seq, new.last = p.last
  PROVE  /\ Linked(Append(held, p), h, new)
         /\ \A n \in Nat : \A w :
              0 < n /\ n <= rec.seq /\ Continues(held, h, rec, n, w)
                => Continues(Append(held, p), h, new, n, w)
<1> DEFINE all == Append(held, p)
<1>1. \A k \in Of(all, h) : \/ k \in Of(held, h) /\ all[k] = held[k]
                            \/ all[k] = p
  <2>1. \A g : \A k \in Of(all, g) : \/ k \in Of(held, g) /\ all[k] = held[k]
                                     \/ all[k] = p /\ p.h = g /\ p.known
    BY OfAppend, Zenon
  <2> HIDE DEF all
  <2> QED  BY <2>1, Zenon
<1>2. \A k \in Of(held, h) : held[k].seq \in Nat /\ 0 < held[k].seq /\ held[k].seq <= rec.seq
  BY DEF InOrder
<1> HIDE DEF all
<1>3. \A k \in Of(all, h) : Timed(all[k])
  BY <1>1 DEF Linked
<1>4. ASSUME NEW j \in Of(all, h), NEW k \in Of(all, h), all[k].seq = all[j].seq + 1
      PROVE  Follows(all[j].last, all[k])
  <2>1. CASE all[j] = p
    BY <1>1, <1>2, <1>4, <2>1
  <2>2. CASE j \in Of(held, h) /\ all[j] = held[j]
    <3>1. CASE all[k] = p
      <4>1. held[j].seq = rec.seq /\ rec.seq > 0
        BY <1>2, <1>4, <2>2, <3>1
      <4> QED  BY <2>2, <3>1, <4>1 DEF Linked
    <3>2. CASE k \in Of(held, h) /\ all[k] = held[k]
      BY <1>4, <2>2, <3>2 DEF Linked
    <3> QED  BY <1>1, <3>1, <3>2
  <2> QED  BY <1>1, <2>1, <2>2
<1>5. \A k \in Of(all, h) : all[k].seq = new.seq => all[k].last = new.last
  BY <1>1, <1>2
<1>6. ASSUME NEW n \in Nat, NEW w, 0 < n, n <= rec.seq, Continues(held, h, rec, n, w)
      PROVE  Continues(all, h, new, n, w)
  <2>1. new.seq # n
    BY <1>6
  <2>2. ASSUME NEW k \in Of(all, h), all[k].seq = n + 1 PROVE Follows(w, all[k])
    <3>1. CASE all[k] = p
      <4>1. rec.seq = n /\ rec.last = w /\ rec.seq > 0
        BY <1>6, <2>2, <3>1 DEF Continues
      <4> QED  BY <3>1, <4>1
    <3>2. CASE k \in Of(held, h) /\ all[k] = held[k]
      BY <1>6, <2>2, <3>2 DEF Continues
    <3> QED  BY <1>1, <3>1, <3>2
  <2> QED  BY <2>1, <2>2 DEF Continues
<1> QED  BY <1>3, <1>4, <1>5, <1>6 DEF Linked, all

(* The first packet on its way is taken. *)
LEMMA LinkLeaves ==
  ASSUME NEW held \in Seq(Packets), held # <<>>, NEW h, NEW rec, Linked(held, h, rec)
  PROVE  /\ Linked(Tail(held), h, rec)
         /\ \A n, w : Continues(held, h, rec, n, w) => Continues(Tail(held), h, rec, n, w)
         /\ held[1].h = h /\ held[1].known
              => Continues(Tail(held), h, rec, held[1].seq, held[1].last)
<1>1. \A k \in Of(Tail(held), h) : k + 1 \in Of(held, h) /\ Tail(held)[k] = held[k + 1]
  BY OfTail
<1>2. held[1].h = h /\ held[1].known => 1 \in Of(held, h)
  <2>1. 1 \in DOMAIN held
    BY LenProperties, EmptySeq
  <2> QED  BY <2>1 DEF Of
<1> DEFINE rest == Tail(held)
<1> HIDE DEF rest
<1>3. \A k \in Of(rest, h) : k + 1 \in Of(held, h) /\ rest[k] = held[k + 1]
  BY <1>1 DEF rest
<1>4. Linked(rest, h, rec)
  BY <1>3 DEF Linked
<1>5. \A n, w : Continues(held, h, rec, n, w) => Continues(rest, h, rec, n, w)
  BY <1>3 DEF Continues
<1>6. ASSUME held[1].h = h, held[1].known
      PROVE  Continues(rest, h, rec, held[1].seq, held[1].last)
  <2>1. 1 \in Of(held, h)
    BY <1>2, <1>6
  <2>2. \A k \in Of(rest, h) : rest[k].seq = held[1].seq + 1 => Follows(held[1].last, rest[k])
    BY <1>3, <2>1 DEF Linked
  <2>3. rec.seq = held[1].seq => rec.last = held[1].last
    BY <2>1 DEF Linked
  <2> QED  BY <2>2, <2>3 DEF Continues
<1> QED  BY <1>4, <1>5, <1>6 DEF rest

-----------------------------------------------------------------------------
(* The invariant.                                                           *)

(* No packet is on its way without the flag. *)
SyncInv ==
  spc = "push" \/ raw_packet_queue # <<>> \/ pc \in {"process", "check"} => is_timestamp_sync

ChainInv(h) ==
  /\ Linked(Held, h, received[h])
  /\ Taken(h) > 0 =>
       \E w \in Nat : /\ Continues(Held, h, received[h], Taken(h), w)
                      /\ IF points_clouds[h] = <<>> THEN InWindow(w)
                                                    ELSE w = GetRecentTimeStamp(h)

(* Between a packet and the test of the clock the cloud may be a packet longer. *)
Slack(h) == IF pc = "check" /\ raw_data.h = h THEN RatioOfMs ELSE Half

CloudInv(h) ==
  points_clouds[h] # <<>> =>
    /\ GetLidarBaseTime(h) <= GetRecentTimeStamp(h)
    /\ GetRecentTimeStamp(h) < Word
    /\ Bounded(GetLidarBaseTime(h), GetRecentTimeStamp(h), published[h] = 0, Slack(h))

TimeInv ==
  /\ SyncInv
  /\ \A h \in Handles : ChainInv(h) /\ CloudInv(h)
  /\ FramesOnTime

AllInv == IInv /\ OnceInv /\ TimeInv

LEMMA StampTypes ==
  ASSUME TypeOK, NEW h \in Handles
  PROVE  /\ GetLidarBaseTime(h) \in Nat /\ GetRecentTimeStamp(h) \in Nat
         /\ received[h] \in [count : Nat, seq : Nat, last : Nat]
         /\ published[h] \in Nat /\ Len(points_clouds[h]) \in Nat
         /\ points_clouds[h] \in Seq(Packets)
<1>1. points_clouds[h] \in Seq(Packets)
  BY DEF TypeOK
<1>2. GetRecentTimeStamp(h) \in Nat
  <2>1. CASE points_clouds[h] = <<>>
    BY <2>1 DEF GetRecentTimeStamp
  <2>2. CASE points_clouds[h] # <<>>
    <3>1. Len(points_clouds[h]) \in 1 .. Len(points_clouds[h])
      BY <1>1, <2>2, EmptySeq
    <3>2. points_clouds[h][Len(points_clouds[h])] \in Packets
      BY <1>1, <3>1, ElementOfSeq
    <3> QED  BY <2>2, <3>2 DEF GetRecentTimeStamp, Packets
  <2> QED  BY <2>1, <2>2
<1>3. received[h] \in [count : Nat, seq : Nat, last : Nat] /\ published[h] \in Nat
  BY DEF TypeOK
<1>4. Len(points_clouds[h]) \in Nat
  BY <1>1, LenProperties
<1> QED  BY <1>1, <1>2, <1>3, <1>4, BaseTypes

(* A packet, in a lidar's clock and without gaps. *)
LEMMA PacketTimes ==
  ASSUME Steady, TypeOK, NEW h \in Handles, NEW sync \in TimeTypes, OnPacket(h, sync)
  PROVE  /\ packet'.known /\ packet'.seq = received[h].seq + 1 /\ packet'.h = h
         /\ packet' \in Packets
         /\ Timed(packet')
         /\ received[h].seq > 0 => Follows(received[h].last, packet')
         /\ received'[h].seq = packet'.seq /\ received'[h].last = packet'.last
         /\ \A g \in Handles \ {h} : received'[g] = received[g]
<1>1. PICK s \in StampsOf(h, sync), known \in {TRUE} :
        /\ packet' = [h |-> h, seq |-> received[h].seq + (IF known THEN 1 ELSE 0),
                      first |-> s[1], last |-> s[2], known |-> known]
        /\ received' = [received EXCEPT ![h] =
                          [count |-> @.count + 1, seq |-> packet'.seq, last |-> s[2]]]
  BY DEF OnPacket, Steady
<1>2. /\ s[1] \in Nat /\ s[2] \in Nat /\ s[1] <= s[2] /\ s[2] <= s[1] + MaxDuration
      /\ s[2] <= MaxStamp + MaxDuration
      /\ s[1] > received[h].last
      /\ received[h].seq > 0 => s[2] <= received[h].last + RatioOfMs \div 2
  BY PubAssumption DEF StampsOf, Steady
<1>3. s[2] <= s[1] + Half /\ s[2] < Word
  BY <1>2, Units, PubAssumption DEF Steady
<1>4. /\ received'[h].seq = packet'.seq /\ received'[h].last = packet'.last
      /\ \A g \in Handles \ {h} : received'[g] = received[g]
  BY <1>1 DEF TypeOK
<1>5. /\ packet'.known /\ packet'.seq = received[h].seq + 1
      /\ packet'.first = s[1] /\ packet'.last = s[2]
  BY <1>1
<1>6. Timed(packet')
  BY <1>2, <1>3, <1>5 DEF Timed
<1>7. received[h].seq > 0 => Follows(received[h].last, packet')
  BY <1>2, <1>5 DEF Follows, Half
<1> QED  BY <1>4, <1>5, <1>6, <1>7, OnPacketTypes

(* Nothing happens to the clouds and to what is on its way. *)
LEMMA TimeStays ==
  ASSUME TypeOK, TimeInv, SyncInv', Held' = Held,
         UNCHANGED <<received, points_clouds, published, frame>>,
         pc' = "check" <=> pc = "check", pc = "check" => raw_data' = raw_data
  PROVE  TimeInv'
<1>1. FramesOnTime'
  BY DEF TimeInv, FramesOnTime
<1>2. ASSUME NEW h \in Handles PROVE ChainInv(h)' /\ CloudInv(h)'
  <2>1. /\ GetLidarBaseTime(h)' = GetLidarBaseTime(h)
        /\ GetRecentTimeStamp(h)' = GetRecentTimeStamp(h)
        /\ Taken(h)' = Taken(h)
    BY DEF GetLidarBaseTime, GetRecentTimeStamp, Taken
  <2>2. Slack(h)' = Slack(h)
    BY DEF Slack
  <2>3. ChainInv(h) /\ CloudInv(h)
    BY DEF TimeInv
  <2> QED  BY <2>1, <2>2, <2>3 DEF ChainInv, CloudInv, Linked, Continues, Bounded, Of
<1> QED  BY <1>1, <1>2 DEF TimeInv

(* The parts of ChainInv in the next state. *)
LEMMA ChainNext ==
  ASSUME NEW h \in Handles, Linked(Held', h, received'[h]),
         Taken(h)' > 0 =>
           \E w \in Nat : /\ Continues(Held', h, received'[h], Taken(h)', w)
                          /\ IF points_clouds'[h] = <<>> THEN InWindow(w)
                                                         ELSE w = GetRecentTimeStamp(h)'
  PROVE  ChainInv(h)'
BY DEF ChainInv, Linked, Continues, Of, Timed, Follows

LEMMA CloudNext ==
  ASSUME NEW h \in Handles,
         points_clouds'[h] # <<>> =>
           /\ GetLidarBaseTime(h)' <= GetRecentTimeStamp(h)'
           /\ GetRecentTimeStamp(h)' < Word
           /\ Bounded(GetLidarBaseTime(h)', GetRecentTimeStamp(h)', published'[h] = 0, Slack(h)')
  PROVE  CloudInv(h)'
BY DEF CloudInv, Bounded

(* What is known of a lidar whose point cloud a step leaves alone. *)
LEMMA SameCloud ==
  ASSUME NEW h \in Handles, points_clouds'[h] = points_clouds[h], published'[h] = published[h]
  PROVE  /\ GetLidarBaseTime(h)' = GetLidarBaseTime(h)
         /\ GetRecentTimeStamp(h)' = GetRecentTimeStamp(h)
         /\ Taken(h)' = Taken(h)
BY DEF GetLidarBaseTime, GetRecentTimeStamp, Taken

LEMMA Looser ==
  ASSUME NEW b \in Nat, NEW l \in Nat, NEW starting \in BOOLEAN, Bounded(b, l, starting, Half)
  PROVE  Bounded(b, l, starting, RatioOfMs)
BY Extend, Units

LEMMA SlackIs ==
  ASSUME NEW h \in Handles
  PROVE  /\ pc # "check" => Slack(h) = Half
         /\ pc' # "check" => Slack(h)' = Half
         /\ pc' = "check" => Slack(h)' \in {Half, RatioOfMs}
         /\ pc' = "check" /\ raw_data'.h = h => Slack(h)' = RatioOfMs
         /\ pc = "check" /\ raw_data.h = h => Slack(h) = RatioOfMs
         /\ pc = "check" /\ raw_data.h # h => Slack(h) = Half
BY DEF Slack

LEMMA TimeReceived ==
  ASSUME Steady, TypeOK, TypeOK', OnceInv, TimeInv, SyncInv',
         NEW g \in Handles, NEW sync \in TimeTypes, OnPacket(g, sync)
  PROVE  TimeInv'
<1>1. /\ UNCHANGED <<points_clouds, published, frame, pc, raw_data>>
      /\ Held' = Append(Held, packet')
  BY ArriveLast DEF OnPacket, clouds, output
<1>2. FramesOnTime'
  BY <1>1 DEF TimeInv, FramesOnTime
<1>3. Held \in Seq(Packets) /\ packet' \in Packets /\ packet'.h = g
  BY HeldParts, PacketTimes
<1>4. ASSUME NEW h \in Handles PROVE ChainInv(h)' /\ CloudInv(h)'
  <2>1. /\ GetLidarBaseTime(h)' = GetLidarBaseTime(h)
        /\ GetRecentTimeStamp(h)' = GetRecentTimeStamp(h)
        /\ Taken(h)' = Taken(h) /\ Slack(h)' = Slack(h)
    BY <1>1, SameCloud DEF Slack
  <2>2. ChainInv(h) /\ CloudInv(h)
    BY DEF TimeInv
  <2>3. CloudInv(h)'
    BY <1>1, <2>1, <2>2 DEF CloudInv, Bounded
  <2>4. CASE h = g
    <3>1. /\ received[h] \in [count : Nat, seq : Nat, last : Nat]
          /\ received'[h] \in [count : Nat, seq : Nat, last : Nat]
          /\ Taken(h) \in Nat /\ InOrder(Held, h, Taken(h), received[h].seq)
          /\ Taken(h) <= received[h].seq
      BY HeldParts DEF OnceInv, TypeOK
    <3>2. /\ packet'.seq = received[h].seq + 1 /\ Timed(packet')
          /\ received[h].seq > 0 => Follows(received[h].last, packet')
          /\ received'[h].seq = packet'.seq /\ received'[h].last = packet'.last
      BY <2>4, PacketTimes
    <3>3. Linked(Held, h, received[h])
      BY <2>2 DEF ChainInv
    <3>4. /\ Linked(Append(Held, packet'), h, received'[h])
          /\ \A n \in Nat : \A w :
               0 < n /\ n <= received[h].seq /\ Continues(Held, h, received[h], n, w)
                 => Continues(Append(Held, packet'), h, received'[h], n, w)
      BY <1>3, <3>1, <3>2, <3>3, LinkArrives
    <3>5. ChainInv(h)'
      BY <1>1, <2>1, <2>2, <3>1, <3>4, ChainNext DEF ChainInv
    <3> QED  BY <2>3, <3>5
  <2>5. CASE h # g
    <3>1. received'[h] = received[h]
      BY <2>5, PacketTimes
    <3>2. Linked(Held, h, received[h])
      BY <2>2 DEF ChainInv
    <3>3. /\ Linked(Append(Held, packet'), h, received[h])
          /\ \A n, w : Continues(Held, h, received[h], n, w)
                         => Continues(Append(Held, packet'), h, received[h], n, w)
      BY <1>3, <2>5, <3>2, LinkOther
    <3>4. ChainInv(h)'
      BY <1>1, <2>1, <2>2, <3>1, <3>3, ChainNext DEF ChainInv
    <3> QED  BY <2>3, <3>4
  <2> QED  BY <2>4, <2>5
<1> QED  BY <1>2, <1>4 DEF TimeInv

LEMMA TimeProcessed ==
  ASSUME Steady, TypeOK, TypeOK', SendersKnown, OnceInv, TimeInv, SyncInv', PointCloudProcess
  PROVE  TimeInv'
<1>1. /\ raw_data.h \in Handles /\ raw_data \in Packets /\ raw_data' = raw_data
      /\ pc = "process" /\ pc' = "check"
      /\ UNCHANGED <<published, received, frame>>
      /\ points_clouds' = IF raw_data.known
                            THEN [points_clouds EXCEPT ![raw_data.h] = Append(@, raw_data)]
                            ELSE points_clouds
  BY DEF PointCloudProcess, SendersKnown, TypeOK, output, sdk
<1>2. FramesOnTime'
  BY <1>1 DEF TimeInv, FramesOnTime
<1>3. Held \in Seq(Packets) /\ Held # <<>> /\ Held[1] = raw_data /\ Held' = Tail(Held)
  BY HeldParts, ProcessTakes
<1>4. ASSUME NEW h \in Handles PROVE ChainInv(h)' /\ CloudInv(h)'
  <2>1. ChainInv(h) /\ CloudInv(h)
    BY DEF TimeInv
  <2>2. /\ Linked(Held', h, received'[h])
        /\ \A n, w : Continues(Held, h, received[h], n, w)
                       => Continues(Held', h, received'[h], n, w)
        /\ raw_data.h = h /\ raw_data.known
             => Continues(Held', h, received'[h], raw_data.seq, raw_data.last)
    BY <1>1, <1>3, <2>1, LinkLeaves DEF ChainInv
  <2>3. /\ GetLidarBaseTime(h) \in Nat /\ GetRecentTimeStamp(h) \in Nat
        /\ published[h] \in Nat /\ Taken(h) \in Nat /\ received[h].seq \in Nat
        /\ points_clouds[h] \in Seq(Packets) /\ Len(points_clouds[h]) \in Nat
    BY StampTypes, HeldParts
  <2>4. CASE ~(h = raw_data.h /\ raw_data.known)
    <3>1. points_clouds'[h] = points_clouds[h] /\ published'[h] = published[h]
      BY <1>1, <2>4 DEF TypeOK
    <3>2. ChainInv(h)'
      BY <2>1, <2>2, <3>1, SameCloud, ChainNext DEF ChainInv
    <3>3. points_clouds[h] # <<>> =>
             Bounded(GetLidarBaseTime(h), GetRecentTimeStamp(h), published[h] = 0, Slack(h)')
      BY <1>1, <2>1, <2>3, SlackIs, Looser DEF CloudInv
    <3>4. CloudInv(h)'
      BY <2>1, <3>1, <3>3, SameCloud, CloudNext DEF CloudInv
    <3> QED  BY <3>2, <3>4
  <2>5. CASE h = raw_data.h /\ raw_data.known
    <3> DEFINE p == raw_data
    <3>1. /\ points_clouds'[h] = Append(points_clouds[h], p) /\ published'[h] = published[h]
          /\ points_clouds'[h] # <<>>
          /\ Len(points_clouds'[h]) = Len(points_clouds[h]) + 1
          /\ points_clouds'[h][Len(points_clouds[h]) + 1] = p
          /\ Head(points_clouds'[h]) = IF points_clouds[h] = <<>> THEN p ELSE Head(points_clouds[h])
      <4>1. points_clouds'[h] = Append(points_clouds[h], p) /\ published'[h] = published[h]
        BY <1>1, <2>5 DEF TypeOK
      <4> QED  BY <1>1, <2>3, <4>1, AppendProperties, HeadTailAppend
    <3>2. GetRecentTimeStamp(h)' = p.last /\ Taken(h)' = Taken(h) + 1
      BY <2>3, <3>1 DEF GetRecentTimeStamp, Taken
    <3>3. GetLidarBaseTime(h)' = IF points_clouds[h] = <<>> THEN p.first ELSE GetLidarBaseTime(h)
      BY <3>1 DEF GetLidarBaseTime
    <3>4. p.seq = Taken(h) + 1
      BY <1>3, <2>3, <2>5, Leave DEF OnceInv
    <3>5. p.first \in Nat /\ p.last \in Nat
      BY <1>1 DEF Packets
    <3>6. 1 \in Of(Held, h)
      BY <1>3, <2>5, LenProperties, EmptySeq DEF Of
    <3>7. Timed(p)
      BY <1>3, <2>1, <3>6 DEF ChainInv, Linked
    <3>8. ChainInv(h)'
      BY <2>2, <2>5, <3>1, <3>2, <3>4, <3>5, ChainNext
    <3>9. Slack(h)' = RatioOfMs
      BY <1>1, <2>5, SlackIs
    <3>10. Taken(h) > 0 =>
             \E w \in Nat : /\ Follows(w, p)
                            /\ IF points_clouds[h] = <<>> THEN InWindow(w)
                                                          ELSE w = GetRecentTimeStamp(h)
      BY <1>3, <2>1, <3>4, <3>6 DEF ChainInv, Continues
    <3> HIDE DEF p
    <3>11. CASE points_clouds[h] = <<>> /\ Taken(h) = 0
      <4>1. published[h] = 0
        BY <2>3, <3>11 DEF Taken
      <4>2. Bounded(p.first, p.last, TRUE, RatioOfMs)
        BY <3>5, <3>7, BeginFirst DEF Timed
      <4>3. (published'[h] = 0) = TRUE
        BY <3>1, <4>1
      <4>4. CloudInv(h)'
        BY <3>2, <3>3, <3>7, <3>9, <3>11, <4>2, <4>3, CloudNext DEF Timed
      <4> QED  BY <3>8, <4>4
    <3>12. CASE points_clouds[h] = <<>> /\ Taken(h) > 0
      <4>1. published[h] # 0
        BY <2>3, <3>12 DEF Taken
      <4>2. PICK w \in Nat : Follows(w, p) /\ InWindow(w)
        BY <3>10, <3>12
      <4>3. Bounded(p.first, p.last, FALSE, RatioOfMs)
        BY <3>5, <3>7, <4>2, BeginNext DEF Timed, Follows
      <4>4. (published'[h] = 0) = FALSE
        BY <3>1, <4>1
      <4>5. CloudInv(h)'
        BY <3>2, <3>3, <3>7, <3>9, <3>12, <4>3, <4>4, CloudNext DEF Timed
      <4> QED  BY <3>8, <4>5
    <3>13. CASE points_clouds[h] # <<>>
      <4>1. Taken(h) > 0
        <5>1. Len(points_clouds[h]) > 0
          BY <2>3, <3>13, EmptySeq
        <5> QED  BY <2>3, <5>1 DEF Taken
      <4>2. Follows(GetRecentTimeStamp(h), p)
        BY <3>10, <3>13, <4>1
      <4>3. /\ GetLidarBaseTime(h) <= GetRecentTimeStamp(h)
            /\ Bounded(GetLidarBaseTime(h), GetRecentTimeStamp(h), published[h] = 0, Half)
        BY <1>1, <2>1, <3>13, SlackIs DEF CloudInv
      <4>4. Bounded(GetLidarBaseTime(h), p.last, published[h] = 0, RatioOfMs)
        <5> DEFINE starting == published[h] = 0
        <5>1. starting \in BOOLEAN
          OBVIOUS
        <5>2. Bounded(GetLidarBaseTime(h), GetRecentTimeStamp(h), starting, Half)
          BY <4>3
        <5> HIDE DEF starting
        <5>3. Bounded(GetLidarBaseTime(h), p.last, starting, RatioOfMs)
          BY <2>3, <3>5, <4>2, <5>1, <5>2, Extend DEF Follows
        <5> QED  BY <5>3 DEF starting
      <4>5. GetLidarBaseTime(h) <= p.last
        BY <2>3, <3>5, <3>7, <4>2, <4>3 DEF Follows, Timed
      <4>6. CloudInv(h)'
        BY <3>1, <3>2, <3>3, <3>7, <3>9, <3>13, <4>4, <4>5, CloudNext DEF Timed
      <4> QED  BY <3>8, <4>6
    <3> QED  BY <2>3, <3>11, <3>12, <3>13
  <2> QED  BY <2>4, <2>5
<1> QED  BY <1>2, <1>4 DEF TimeInv

LEMMA DueIsDue ==
  ASSUME NEW h
  PROVE  FrameDue(h) <=> Due(GetLidarBaseTime(h), GetRecentTimeStamp(h))
BY DEF FrameDue, Due

(* What the test of the lidar's clock finds. *)
LEMMA CloudTested ==
  ASSUME Steady, TypeOK, NEW h \in Handles, CloudInv(h), Slack(h) = RatioOfMs,
         points_clouds[h] # <<>>
  PROVE  /\ ~FrameDue(h) => Bounded(GetLidarBaseTime(h), GetRecentTimeStamp(h),
                                    published[h] = 0, Half)
         /\ FrameDue(h) =>
              /\ InWindow(GetRecentTimeStamp(h))
              /\ GetRecentTimeStamp(h) - GetLidarBaseTime(h)
                   < IF published[h] = 0 THEN 2 * Interval ELSE Interval + RatioOfMs
<1> DEFINE b == GetLidarBaseTime(h)
           l == GetRecentTimeStamp(h)
           starting == published[h] = 0
<1>1. b \in Nat /\ l \in Nat /\ starting \in BOOLEAN
  BY StampTypes
<1>2. b <= l /\ l < Word /\ Bounded(b, l, starting, RatioOfMs)
  BY DEF CloudInv
<1>3. FrameDue(h) <=> Due(b, l)
  BY DueIsDue
<1> HIDE DEF b, l, starting
<1>4. /\ ~Due(b, l) => Bounded(b, l, starting, Half)
      /\ Due(b, l) => /\ InWindow(l)
                      /\ l - b < IF starting THEN 2 * Interval ELSE Interval + RatioOfMs
  BY <1>1, <1>2, Tested
<1> QED  BY <1>3, <1>4 DEF b, l, starting

LEMMA TimePublished ==
  ASSUME Steady, TypeOK, TypeOK', SendersKnown, OnceInv, TimeInv, SyncInv', CheckTimerSync
  PROVE  TimeInv'
<1>0. PICK r \in Handles : r = raw_data.h
  BY DEF CheckTimerSync, SendersKnown
<1>1. /\ r \in Handles /\ pc = "check" /\ pc' = "top"
      /\ received' = received /\ Held' = Held
      /\ IF FrameDue(r) THEN PublishPointCloud({r}) ELSE UNCHANGED <<points_clouds, output>>
  BY <1>0 DEF CheckTimerSync, sdk, Held
<1>2. \A h \in Handles : /\ Slack(h)' = Half
                         /\ h # r => Slack(h) = Half
                         /\ h = r => Slack(h) = RatioOfMs
  BY <1>0, <1>1, SlackIs
<1>3. \A h \in Handles : ChainInv(h) /\ CloudInv(h)
  BY DEF TimeInv
<1>4. ASSUME NEW h \in Handles, points_clouds'[h] = points_clouds[h], published'[h] = published[h],
             h = r => ~FrameDue(h)
      PROVE  ChainInv(h)' /\ CloudInv(h)'
  <2>1. ChainInv(h)'
    BY <1>1, <1>3, <1>4, SameCloud, ChainNext DEF ChainInv
  <2>2. points_clouds[h] # <<>> =>
          Bounded(GetLidarBaseTime(h), GetRecentTimeStamp(h), published[h] = 0, Half)
    <3>1. CASE h = r
      BY <1>2, <1>3, <1>4, <3>1, CloudTested
    <3>2. CASE h # r
      BY <1>2, <1>3, <3>2 DEF CloudInv
    <3> QED  BY <3>1, <3>2
  <2>3. CloudInv(h)'
    BY <1>2, <1>3, <1>4, <2>2, SameCloud, CloudNext DEF CloudInv
  <2> QED  BY <2>1, <2>3
<1>5. CASE ~FrameDue(r)
  <2>1. UNCHANGED <<points_clouds, frame, published>>
    BY <1>1, <1>5 DEF output
  <2>2. FramesOnTime'
    BY <2>1 DEF TimeInv, FramesOnTime
  <2> QED  BY <1>4, <1>5, <2>1, <2>2 DEF TimeInv
<1>6. CASE FrameDue(r)
  <2>1. PublishPointCloud({r}) /\ {r} \in SUBSET Handles
    BY <1>1, <1>6
  <2>2. /\ points_clouds'[r] = <<>> /\ published'[r] = published[r] + Len(points_clouds[r])
        /\ \A h \in Handles \ {r} : points_clouds'[h] = points_clouds[h]
                                    /\ published'[h] = published[h]
    BY <1>1, <2>1, PublishCounts
  <2>3. /\ published[r] \in Nat /\ Len(points_clouds[r]) \in Nat
        /\ points_clouds[r] \in Seq(Packets) /\ GetRecentTimeStamp(r) \in Nat
    BY <1>1, StampTypes
  <2>4. points_clouds[r] # <<>> =>
          /\ InWindow(GetRecentTimeStamp(r))
          /\ GetRecentTimeStamp(r) - GetLidarBaseTime(r)
               < IF published[r] = 0 THEN 2 * Interval ELSE Interval + RatioOfMs
    BY <1>1, <1>2, <1>3, <1>6, CloudTested
  <2>5. FramesOnTime'
    <3> SUFFICES ASSUME NEW p \in frame'
        PROVE  p.points[Len(p.points)].last - p.base
                 < IF Head(p.points).seq = 1 THEN 2 * Interval ELSE Interval + RatioOfMs
      BY DEF FramesOnTime
    <3>1. /\ points_clouds[r] # <<>> /\ p.points = points_clouds[r]
          /\ p.base = GetLidarBaseTime(r)
      BY <2>1, FramePoints
    <3>2. p.points[Len(p.points)].last = GetRecentTimeStamp(r)
      BY <3>1 DEF GetRecentTimeStamp
    <3>3. Head(p.points).seq = published[r] + 1
      <4>1. 1 \in DOMAIN points_clouds[r] /\ Head(points_clouds[r]) = points_clouds[r][1]
        BY <2>3, <3>1, EmptySeq, HeadTailProperties, LenProperties
      <4>2. points_clouds[r][1].seq = published[r] + 1
        BY <1>1, <4>1 DEF OnceInv, CloudInOrder
      <4> QED  BY <3>1, <4>1, <4>2
    <3>4. Head(p.points).seq = 1 <=> published[r] = 0
      BY <2>3, <3>3
    <3> QED  BY <2>4, <3>1, <3>2, <3>4
  <2>6. ChainInv(r)'
    <3>1. Taken(r)' = Taken(r)
      BY <2>2, <2>3, EmptySeq DEF Taken
    <3>2. Linked(Held', r, received'[r])
      BY <1>1, <1>3 DEF ChainInv
    <3>3. Taken(r)' > 0 =>
            \E w \in Nat : Continues(Held', r, received'[r], Taken(r)', w) /\ InWindow(w)
      BY <1>1, <1>3, <2>4, <3>1 DEF ChainInv
    <3> QED  BY <1>1, <2>2, <3>2, <3>3, ChainNext
  <2>7. CloudInv(r)'
    BY <1>1, <2>2, CloudNext
  <2>8. ASSUME NEW h \in Handles PROVE ChainInv(h)' /\ CloudInv(h)'
    <3>1. CASE h = r
      BY <2>6, <2>7, <3>1
    <3>2. CASE h # r
      BY <1>4, <2>2, <3>2
    <3> QED  BY <3>1, <3>2
  <2> QED  BY <2>5, <2>8 DEF TimeInv
<1> QED  BY <1>5, <1>6

LEMMA StepSync ==
  ASSUME Steady, TypeOK, SyncInv, [Next]_vars
  PROVE  SyncInv'
<1>1. ASSUME NEW sync \in TimeTypes, OnImuPacket(sync) PROVE SyncInv'
  BY <1>1 DEF OnImuPacket, Steady, SyncInv
<1>2. ASSUME NEW h \in Handles, NEW sync \in TimeTypes, OnPacket(h, sync) PROVE SyncInv'
  BY <1>2 DEF OnPacket, Steady, SyncInv
<1>3. CASE Tick \/ PushPacket \/ Notify \/ RequestExit \/ WaitTimeout
  BY <1>3 DEF Tick, PushPacket, Notify, RequestExit, WaitTimeout, SyncInv, sdk
<1>4. CASE TestQuit \/ WaitForPacket \/ WakeInVain
  BY <1>4 DEF TestQuit, WaitForPacket, WakeInVain, SyncInv, sdk
<1>5. CASE PopPacket
  BY <1>5 DEF PopPacket, SyncInv, sdk
<1>6. CASE PointCloudProcess \/ CheckTimerSync \/ CheckTimerFirst \/ CheckTimerHost
  BY <1>6 DEF PointCloudProcess, CheckTimerSync, CheckTimerFirst, CheckTimerHost, SyncInv, sdk
<1>7. CASE UNCHANGED vars
  BY <1>7 DEF vars, SyncInv
<1> QED
  BY <1>1, <1>2, <1>3, <1>4, <1>5, <1>6, <1>7 DEF Next, Process

LEMMA StepTime ==
  ASSUME Steady, AllInv, [Next]_vars
  PROVE  TimeInv'
<1>0. /\ TypeOK /\ TypeOK' /\ SendersKnown /\ OnceInv /\ TimeInv /\ SyncInv
      /\ SyncInv' /\ OnceInv'
  <2>1. IInv /\ TypeOK /\ SendersKnown /\ OnceInv /\ TimeInv /\ SyncInv
    BY DEF AllInv, IInv, TimeInv
  <2>2. IInv' /\ OnceInv' /\ SyncInv'
    BY <2>1, StepIInv, StepOnce, StepSync
  <2> QED  BY <2>1, <2>2 DEF IInv
<1>1. ASSUME NEW h \in Handles, NEW sync \in TimeTypes, OnPacket(h, sync) PROVE TimeInv'
  BY <1>0, <1>1, TimeReceived
<1>2. CASE PushPacket
  BY <1>0, <1>2, PushMoves, TimeStays DEF PushPacket, clouds, output
<1>3. CASE PopPacket
  BY <1>0, <1>3, PopMoves, TimeStays DEF PopPacket, sdk, clouds, output
<1>4. CASE PointCloudProcess
  BY <1>0, <1>4, TimeProcessed
<1>5. CASE Notify
  <2>1. Held' = Held
    BY <1>5 DEF Notify, Held
  <2> QED  BY <1>0, <1>5, <2>1, TimeStays DEF Notify, clouds, output
<1>6. CASE CheckTimerSync
  BY <1>0, <1>6, TimePublished
<1>7. CASE CheckTimerHost \/ CheckTimerFirst
  BY <1>0, <1>7 DEF CheckTimerHost, CheckTimerFirst, SyncInv
<1>8. CASE Tick \/ RequestExit
  <2>1. Held' = Held
    BY <1>8 DEF Tick, RequestExit, Held, sdk
  <2> QED  BY <1>0, <1>8, <2>1, TimeStays DEF Tick, RequestExit, sdk, clouds, output
<1>9. ASSUME NEW sync \in TimeTypes, OnImuPacket(sync) PROVE TimeInv'
  <2>1. Held' = Held
    BY <1>9 DEF OnImuPacket, Held
  <2> QED  BY <1>0, <1>9, <2>1, TimeStays DEF OnImuPacket, clouds, output
<1>10. CASE TestQuit \/ WaitForPacket \/ WaitTimeout \/ WakeInVain
  <2>1. Held' = Held
    BY <1>10 DEF TestQuit, WaitForPacket, WaitTimeout, WakeInVain, Held, sdk
  <2> QED  BY <1>0, <1>10, <2>1, TimeStays
    DEF TestQuit, WaitForPacket, WaitTimeout, WakeInVain, sdk, clouds, output
<1>11. CASE UNCHANGED vars
  <2>1. Held' = Held
    BY <1>11 DEF vars, Held
  <2> QED  BY <1>0, <1>11, <2>1, TimeStays DEF vars
<1> QED
  BY <1>1, <1>2, <1>3, <1>4, <1>5, <1>6, <1>7, <1>8, <1>9, <1>10, <1>11 DEF Next, Process

LEMMA StepAllInv ==
  ASSUME Steady
  PROVE  AllInv /\ [Next]_vars => AllInv'
BY StepTime, StepIInv, StepOnce DEF AllInv

LEMMA InitTime == Init => AllInv
<1> SUFFICES ASSUME Init PROVE AllInv
  OBVIOUS
<1>1. IInv /\ OnceInv
  BY InitIInv, InitOnce
<1>2. SyncInv /\ FramesOnTime
  BY DEF Init, SyncInv, FramesOnTime
<1>3. ASSUME NEW h \in Handles PROVE ChainInv(h) /\ CloudInv(h)
  <2>1. points_clouds[h] = <<>> /\ published[h] = 0 /\ Held = <<>>
    BY DEF Init, Held
  <2>2. Of(Held, h) = {} /\ Taken(h) = 0
    BY <2>1 DEF Of, Taken
  <2> QED  BY <2>1, <2>2 DEF ChainInv, CloudInv, Linked
<1> QED  BY <1>1, <1>2, <1>3 DEF AllInv, TimeInv

(* A lidar on a synchronized clock without gaps gets its frames on time: no frame
   but its first spans more than the interval and a millisecond, and the first
   spans less than two intervals (pub_handler.cpp:66-69, 174-181).  Without the
   premise on gaps a frame can miss its millisecond and last for two intervals. *)
THEOREM FramesAreOnTime ==
  ASSUME Steady
  PROVE  Spec => []FramesOnTime
<1>1. AllInv => FramesOnTime
  BY DEF AllInv, TimeInv
<1>2. AllInv /\ [Next]_vars => AllInv'
  BY StepAllInv
<1> QED  BY <1>1, <1>2, InitTime, PTL DEF Spec

============================================================================
