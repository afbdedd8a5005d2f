------------------------------ MODULE DataPath ------------------------------
(***************************************************************************)
(* The way of the points from the packets of the lidars to the topics, and *)
(* of the parameters and the configuration file to the places where they   *)
(* act: the composition of start-up, packet processing, device table,      *)
(* queues, self filter and publishers.                                     *)
(*                                                                         *)
(* The main thread reads the parameters, fills in the devices and sets the *)
(* callbacks; from then on the processing thread, the command thread and   *)
(* the poll thread work on the same handlers, devices and queues.  The     *)
(* frame clock, the rings, the wake-ups and the registry have modules of   *)
(* their own (PubHandler, Ldq, Delivery, CacheIndex) and are atomic here;  *)
(* every stamp is accepted (StampFilter).                                  *)
(*                                                                         *)
(* Lengths are in mm, coordinates of messages too; the publish frequency   *)
(* is in half Hz; an angle is in quarter turns.                            *)
(***************************************************************************)
EXTENDS SelfFilter, FiniteSets

CONSTANTS
  Handles,          (* addresses of lidars                                   *)
  kMaxSourceLidar,  (* length of lidars_                                     *)
  OffsetRange,      (* 2^32: offset_time of a message is a uint32_t          *)
  MantissaRange,    (* 2^53: up to here a double has every integer           *)
  Setups,           (* launch parameters, configuration file and lidars      *)
  None

High == 1   (* kLivoxLidarCartesianCoordinateHighData: mm                    *)
Low == 2    (* kLivoxLidarCartesianCoordinateLowData: cm                     *)
Spherical == 3
Kinds == {High, Low, Spherical}

PointCloud2 == 0
CustomMsg == 1

Indices == 0 .. kMaxSourceLidar - 1

(* An entry of lidar_configs has any of its fields, each with the parser's type. *)
IsEntry(config) ==
  /\ "ip" \in DOMAIN config => config.ip \in Handles
  /\ "pcl_data_type" \in DOMAIN config => config.pcl_data_type \in Int
  /\ "extrinsic_parameter" \in DOMAIN config =>
       \A name \in DOMAIN config.extrinsic_parameter : config.extrinsic_parameter[name] \in Int

IsSetup(s) ==
  /\ s.publish_freq \in Int /\ s.multi_topic \in BOOLEAN /\ s.packets \in Nat
  /\ s.xfer_format \in {PointCloud2, CustomMsg}
  /\ s.filter \in FilterParams
  /\ s.senders \subseteq Handles /\ s.kinds \subseteq Kinds /\ s.stamps \subseteq Nat
  /\ \A cloud \in s.clouds : cloud \in Seq(Vectors)
  /\ LET entries == {s.lidar_configs[k] : k \in DOMAIN s.lidar_configs}
     IN s.lidar_configs \in Seq(entries) /\ \A config \in entries : IsEntry(config)

ExtrinsicParams == [rpy : Vectors, xyz : Vectors]

UserConfigs == [handle : Handles, pcl_data_type : Int, extrinsic_param : ExtrinsicParams]

Points ==
  [at : Vectors, time : Int,
   from : [handle : Handles, kind : Kinds, raw : Vectors, stamp : Nat]]

Frames == [base_time : Int, points : Seq(Points) \ {<<>>}]

LidarDevices == [handle : Handles \cup {0}, sampling : BOOLEAN, queue : Seq(Frames), size : Nat]

LidarPubHandlers ==
  [is_set : BOOLEAN, rotation : Vectors \X Vectors \X Vectors, trans : Vectors,
   cloud : Seq(Points)]

TopicNames == {<<"livox/lidar">>} \cup {<<"livox/lidar_", h>> : h \in Handles \cup {0}}

ASSUME DataPathAssumption ==
  /\ kMaxSourceLidar \in Nat \ {0}
  /\ OffsetRange \in Nat \ {0}
  /\ MantissaRange \in Nat \ {0} /\ MantissaRange % 2 = 0
  /\ \A s \in Setups : IsSetup(s)
  /\ 0 \notin Handles
  /\ None \notin Indices /\ None \notin ExtrinsicParams
  /\ None \notin LidarPubHandlers /\ None \notin TopicNames

VARIABLES
  setup,         (* the parameters, the file and the lidars                  *)
  phase,         (* where the main thread is: "load", "parse", "fill", "run" *)
  publish_freq,  (* after the limits of the constructor                      *)
  filter,        (* the self filter's members                                *)
  user_configs,  (* entries that are not filled in yet                       *)
  map_index,     (* index of each handle, or None                            *)
  devices,       (* lidars_: [handle, sampling, queue, size] of each index   *)
  extrinsics,    (* lidar_extrinsics_: parameters of each handle, or None    *)
  rates,         (* publish_interval_, .._tolerance_ and .._ms_              *)
  handlers,      (* lidar_process_handlers_ with their points_clouds_        *)
  topics,        (* global_pub_ (index None) and private_pub_: their names   *)
  packets,       (* bounds the exploration: packets still to come            *)
  outcomes       (* history: frames distributed, with what was published     *)

vars == <<setup, phase, publish_freq, filter, user_configs, map_index, devices,
          extrinsics, rates, handlers, topics, packets, outcomes>>

threads == <<handlers, topics, packets, outcomes>>

-----------------------------------------------------------------------------
(* Start-up.                                                                *)

NoDevice == [handle |-> 0, sampling |-> FALSE, queue |-> <<>>, size |-> 0]

Init ==
  /\ setup \in Setups
  /\ phase = "load"
  /\ publish_freq = 20
  /\ filter = None
  /\ user_configs = <<>>
  /\ map_index = [h \in Handles |-> None]
  /\ devices = [i \in Indices |-> NoDevice]
  /\ extrinsics = [h \in Handles |-> None]
  /\ rates = [interval |-> 100000000, tolerance |-> 100000000, ms |-> 100]
  /\ handlers = [h \in Handles |-> None]
  /\ topics = [i \in Indices \cup {None} |-> None]
  /\ packets = setup.packets
  /\ outcomes = {}

(* Mutated form of LoadParameters: the upper limit alone. *)
LoadParameters_NoLowerLimit ==
  /\ phase = "load"
  /\ publish_freq' = IF setup.publish_freq > 200 THEN 200 ELSE setup.publish_freq
  /\ filter' = LoadSelfFilterConfig(setup.filter)
  /\ phase' = "parse"
  /\ UNCHANGED <<setup, user_configs, map_index, devices, extrinsics, rates, threads>>

(* DriverNode's constructor up to SetRosNode. *)
LoadParameters ==
  /\ phase = "load"
  /\ publish_freq' = CASE setup.publish_freq > 200 -> 200
                       [] setup.publish_freq < 1 -> 1
                       [] OTHER -> setup.publish_freq
  /\ filter' = LoadSelfFilterConfig(setup.filter)
  /\ phase' = "parse"
  /\ UNCHANGED <<setup, user_configs, map_index, devices, extrinsics, rates, threads>>

Field(object, name, default) ==
  IF name \in DOMAIN object THEN object[name] ELSE default

ParseExtrinsics(value) ==
  [rpy |-> <<Field(value, "roll", 0), Field(value, "pitch", 0), Field(value, "yaw", 0)>>,
   xyz |-> <<Field(value, "x", 0), Field(value, "y", 0), Field(value, "z", 0)>>]

ParseUserConfig(config) ==
  [handle |-> config.ip,
   pcl_data_type |-> Field(config, "pcl_data_type", -1),
   extrinsic_param |-> ParseExtrinsics(Field(config, "extrinsic_parameter", [none |-> 0]))]

HasIp(config) == "ip" \in DOMAIN config

ParseUserConfigs ==
  /\ phase = "parse"
  /\ LET listed == Subsequence(setup.lidar_configs,
                              {k \in DOMAIN setup.lidar_configs : HasIp(setup.lidar_configs[k])})
     IN user_configs' = [k \in DOMAIN listed |-> ParseUserConfig(listed[k])]
  /\ phase' = "fill"
  /\ UNCHANGED <<setup, publish_freq, filter, map_index, devices, extrinsics, rates, threads>>

(* What GetFreeIndex returns; CacheIndex has its steps. *)
FreeIndices == {i \in Indices : \A h \in Handles : map_index[h] # i}

(* Mutated form of GetFreeIndex: it does not look the lidar up first. *)
GetFreeIndex_NoLookup(h) ==
  IF FreeIndices = {} THEN None
  ELSE CHOOSE i \in FreeIndices : \A j \in FreeIndices : i <= j

GetFreeIndex(h) ==
  IF map_index[h] # None THEN map_index[h]
  ELSE IF FreeIndices = {} THEN None
  ELSE CHOOSE i \in FreeIndices : \A j \in FreeIndices : i <= j

(* Division of int32_t, which truncates. *)
Tenth(x) == IF x >= 0 THEN x \div 10 ELSE -((-x) \div 10)

(* Mutated form of LidarParam: millimetres for all types of data. *)
LidarParam_Unscaled(config) ==
  [rpy |-> config.extrinsic_param.rpy, xyz |-> config.extrinsic_param.xyz]

(* The extrinsics in the unit of the configured data type. *)
LidarParam(config) ==
  [rpy |-> config.extrinsic_param.rpy,
   xyz |-> IF config.pcl_data_type = Low
             THEN [k \in Axes |-> Tenth(config.extrinsic_param.xyz[k])]
             ELSE config.extrinsic_param.xyz]

(* Mutated form of FillDevice: the device's handle is not set. *)
FillDevice_NoHandle ==
  /\ phase = "fill"
  /\ user_configs # <<>>
  /\ LET config == Head(user_configs)
         index == GetFreeIndex(config.handle)
     IN /\ index # None
        /\ map_index' = [map_index EXCEPT ![config.handle] = index]
        /\ extrinsics' = [extrinsics EXCEPT ![config.handle] = LidarParam(config)]
  /\ user_configs' = Tail(user_configs)
  /\ UNCHANGED <<setup, phase, publish_freq, filter, devices, rates, threads>>

(* InitLivoxLidar: a device for the next entry of the file; one that is listed
   twice has the values of the last entry. *)
FillDevice ==
  /\ phase = "fill"
  /\ user_configs # <<>>
  /\ LET config == Head(user_configs)
         index == GetFreeIndex(config.handle)
     IN /\ index # None
        /\ map_index' = [map_index EXCEPT ![config.handle] = index]
        /\ devices' = [devices EXCEPT ![index].handle = config.handle]
        /\ extrinsics' = [extrinsics EXCEPT ![config.handle] = LidarParam(config)]
  /\ user_configs' = Tail(user_configs)
  /\ UNCHANGED <<setup, phase, publish_freq, filter, rates, threads>>

(* The table is full: the lidar stays without device and without extrinsics. *)
SkipDevice ==
  /\ phase = "fill"
  /\ user_configs # <<>>
  /\ GetFreeIndex(Head(user_configs).handle) = None
  /\ user_configs' = Tail(user_configs)
  /\ UNCHANGED <<setup, phase, publish_freq, filter, map_index, devices, extrinsics,
                 rates, threads>>

SetPointCloudConfig(freq) ==
  LET interval == 2000000000 \div freq
  IN [interval |-> interval, tolerance |-> interval - 1000000, ms |-> interval \div 1000000]

(* SetLidarPubHandle: callbacks, rates and the processing thread. *)
SetLidarPubHandle ==
  /\ phase = "fill"
  /\ user_configs = <<>>
  /\ rates' = SetPointCloudConfig(publish_freq)
  /\ phase' = "run"
  /\ UNCHANGED <<setup, publish_freq, filter, user_configs, map_index, devices,
                 extrinsics, threads>>

mainVars == <<setup, phase, publish_freq, filter, user_configs, extrinsics, rates>>

-----------------------------------------------------------------------------
(* The command thread.                                                      *)

(* A lidar that has no index is announced: its device gets a type, no handle. *)
LidarInfoChange(h) ==
  /\ phase = "run"
  /\ h \in setup.senders
  /\ map_index[h] = None
  /\ GetFreeIndex(h) # None
  /\ map_index' = [map_index EXCEPT ![h] = GetFreeIndex(h)]
  /\ UNCHANGED <<mainVars, devices, threads>>

(* All its settings are confirmed (LidarConfig). *)
SetSampling(h) ==
  /\ phase = "run"
  /\ map_index[h] # None
  /\ ~devices[map_index[h]].sampling
  /\ devices' = [devices EXCEPT ![map_index[h]].sampling = TRUE]
  /\ UNCHANGED <<mainVars, map_index, threads>>

-----------------------------------------------------------------------------
(* The processing thread.                                                   *)

NewHandler == [is_set |-> FALSE, rotation |-> << <<1, 0, 0>>, <<0, 1, 1>>, <<0, 0, 1>> >>,
               trans |-> <<0, 0, 0>>, cloud |-> <<>>]

(* The first parameters are kept. *)
SetLidarsExtParam(handler, param) ==
  IF handler.is_set THEN handler
  ELSE [handler EXCEPT !.is_set = TRUE, !.rotation = ExtrinsicRotation(param.rpy),
                       !.trans = param.xyz]

(* A spherical point is <<depth, theta, phi>>. *)
Cartesian(p) ==
  <<p[1] * Sin(p[2]) * Cos(p[3]), p[1] * Sin(p[2]) * Sin(p[3]), p[1] * Cos(p[2])>>

Tenfold(p) == <<10 * p[1], 10 * p[2], 10 * p[3]>>

ProcessCartesianHighPoint(p, handler) == TransformPoint(p, handler.rotation, handler.trans)
ProcessCartesianLowPoint(p, handler) ==
  Tenfold(TransformPoint(p, handler.rotation, handler.trans))
ProcessSphericalPoint(p, handler) ==
  TransformPoint(Cartesian(p), handler.rotation, handler.trans)

(* The points of a packet, one interval apart.  Each keeps where it is from, for
   the properties. *)
PointCloudProcess(h, kind, raw, stamp, handler) ==
  [k \in DOMAIN raw |->
     [at |-> CASE kind = High -> ProcessCartesianHighPoint(raw[k], handler)
               [] kind = Low -> ProcessCartesianLowPoint(raw[k], handler)
               [] kind = Spherical -> ProcessSphericalPoint(raw[k], handler),
      time |-> stamp + k - 1,
      from |-> [handle |-> h, kind |-> kind, raw |-> raw[k], stamp |-> stamp + k - 1]]]

RawDataProcess(h, kind, raw, stamp) ==
  /\ phase = "run"
  /\ packets > 0
  /\ packets' = packets - 1
  /\ h \in setup.senders /\ kind \in setup.kinds
  /\ LET found == IF handlers[h] = None THEN NewHandler ELSE handlers[h]
         handler == IF extrinsics[h] = None THEN found
                    ELSE SetLidarsExtParam(found, extrinsics[h])
     IN handlers' = [handlers EXCEPT ![h] =
          [handler EXCEPT !.cloud = @ \o PointCloudProcess(h, kind, raw, stamp, handler)]]
  /\ UNCHANGED <<mainVars, map_index, devices, topics, outcomes>>

CalculatePacketQueueSize(f) == IF f > 20 THEN (f \div 2) + 1 ELSE 10

(* Mutated form of RoundupPowerOf2: it stops one step too early. *)
RoundupPowerOf2_Below(size) == 2^(CHOOSE i \in 0 .. 30 : 2^i <= size /\ size < 2^(i + 1))

(* All sizes are below 2^31. *)
RoundupPowerOf2(size) == 2^(CHOOSE i \in 0 .. 30 : size <= 2^i /\ (i > 0 => 2^(i - 1) < size))

(* A frame of a lidar without index is dropped, and so is one that meets a full
   ring; the ring is made for the first frame. *)
StoragePointData(h, frame) ==
  IF map_index[h] = None THEN devices
  ELSE LET device == devices[map_index[h]]
           size == IF device.size = 0 THEN RoundupPowerOf2(CalculatePacketQueueSize(publish_freq))
                   ELSE device.size
           queue == IF Len(device.queue) < size THEN Append(device.queue, frame)
                    ELSE device.queue
       IN [devices EXCEPT ![map_index[h]].queue = queue, ![map_index[h]].size = size]

(* Mutated form of Frame: the base time is taken after the points were. *)
Frame_BaseAfterSwap(cloud) == [base_time |-> 0, points |-> cloud]

Frame(cloud) == [base_time |-> cloud[1].time, points |-> cloud]

(* The frame clock is due: the cloud goes to the queue of the lidar. *)
PublishPointCloud(h) ==
  /\ handlers[h] # None
  /\ handlers[h].cloud # <<>>
  /\ devices' = StoragePointData(h, Frame(handlers[h].cloud))
  /\ handlers' = [handlers EXCEPT ![h].cloud = <<>>]
  /\ UNCHANGED <<mainVars, map_index, topics, packets, outcomes>>

-----------------------------------------------------------------------------
(* The poll thread.                                                         *)

(* The publisher of a device is made with the first message: its topic is named
   after the handle of the device, or it is the one of all lidars. *)
PublisherOf(i) == IF setup.multi_topic THEN i ELSE None

GetCurrentPublisher(i) ==
  IF topics[PublisherOf(i)] # None THEN topics
  ELSE [topics EXCEPT ![PublisherOf(i)] =
          IF setup.multi_topic THEN <<"livox/lidar_", devices[i].handle>> ELSE <<"livox/lidar">>]

(* The distance of the doubles around x: it is 1 up to MantissaRange and doubles with
   x from there on, up to 2^11 below 2^64, where stamps end. *)
Spacing(x) ==
  2^(CHOOSE k \in 0 .. 11 : /\ k > 0 => MantissaRange * 2^(k - 1) <= x
                            /\ k < 11 => x < MantissaRange * 2^k)

(* The double that an integer is cast to: the nearest one, and the even one of two. *)
Double(x) ==
  LET step == Spacing(x)
      below == x \div step
      rest == x % step
      down == 2 * rest < step \/ (2 * rest = step /\ below % 2 = 0)
  IN IF down THEN below * step ELSE (below + 1) * step

(* Mutated form of InitPointcloud2Msg: the time since the first point of the frame. *)
InitPointcloud2Msg_Offset(frame) ==
  [accepted |-> TRUE,
   points |-> [k \in DOMAIN frame.points |->
                 [frame.points[k] EXCEPT !.time = Double(@ - frame.base_time)]]]

(* A PointCloud2 message has the points with their stamps, as doubles, and no filter. *)
InitPointcloud2Msg(frame) ==
  [accepted |-> TRUE,
   points |-> [k \in DOMAIN frame.points |-> [frame.points[k] EXCEPT !.time = Double(@)]]]

FillPointsToCustomMsg(frame) ==
  [k \in DOMAIN frame.points |->
     [frame.points[k] EXCEPT !.time = (@ - frame.base_time) % OffsetRange]]

Message(frame) ==
  IF setup.xfer_format = PointCloud2 THEN InitPointcloud2Msg(frame)
  ELSE ApplySelfFilter(FillPointsToCustomMsg(frame), filter)

(* One turn for the oldest frame of a device.  The timebase of the message is the
   base time of the frame. *)
Distribute(i) ==
  /\ devices[i].sampling
  /\ devices[i].queue # <<>>
  /\ LET frame == Head(devices[i].queue)
         message == Message(frame)
     IN /\ topics' = IF message.accepted THEN GetCurrentPublisher(i) ELSE topics
        /\ outcomes' = outcomes \cup
             {[frame |-> frame, published |-> message.accepted, points |-> message.points,
               topic |-> IF message.accepted THEN topics'[PublisherOf(i)] ELSE None]}
  /\ devices' = [devices EXCEPT ![i].queue = Tail(@)]
  /\ UNCHANGED <<mainVars, map_index, handlers, packets>>

-----------------------------------------------------------------------------
Next ==
  \/ LoadParameters
  \/ ParseUserConfigs
  \/ FillDevice
  \/ SkipDevice
  \/ SetLidarPubHandle
  \/ \E h \in Handles :
       \/ LidarInfoChange(h)
       \/ SetSampling(h)
       \/ \E kind \in setup.kinds, raw \in setup.clouds, stamp \in setup.stamps :
            RawDataProcess(h, kind, raw, stamp)
       \/ PublishPointCloud(h)
  \/ \E i \in Indices : Distribute(i)

Spec == Init /\ [][Next]_vars

-----------------------------------------------------------------------------
(* Properties.                                                              *)

TypeOK ==
  /\ phase \in {"load", "parse", "fill", "run"}
  /\ publish_freq \in 1 .. 200
  /\ filter \in {None, LoadSelfFilterConfig(setup.filter)}
  /\ user_configs \in Seq(UserConfigs)
  /\ map_index \in [Handles -> Indices \cup {None}]
  /\ devices \in [Indices -> LidarDevices]
  /\ extrinsics \in [Handles -> ExtrinsicParams \cup {None}]
  /\ rates \in [interval : Nat, tolerance : Int, ms : Nat]
  /\ handlers \in [Handles -> LidarPubHandlers \cup {None}]
  /\ topics \in [Indices \cup {None} -> TopicNames \cup {None}]
  /\ packets \in Nat
  /\ \A o \in outcomes : /\ o.frame \in Frames /\ o.points \in Seq(Points)
                         /\ o.published \in BOOLEAN /\ o.topic \in TopicNames \cup {None}

(* The table of devices is the registry that the index cache implements: an entry
   that is repeated and a lidar that is announced find the index they have, and no
   index is given twice or taken back (lds_lidar.cpp:147-158,
   livox_lidar_callback.cpp:44-54). *)
Registry == INSTANCE IndexRegistry WITH assigned <- map_index

KeepsRegistry == Registry!Spec

(* The entry of the configuration file that counts for a lidar: the last. *)
Entries(h) == {k \in DOMAIN setup.lidar_configs :
                 HasIp(setup.lidar_configs[k]) /\ setup.lidar_configs[k].ip = h}

EntryOf(h) == setup.lidar_configs[CHOOSE k \in Entries(h) : \A j \in Entries(h) : j <= k]

(* The lidar is listed early enough to find a place in lidars_. *)
Placed(h) ==
  \E k \in Entries(h) :
    Cardinality({g \in Handles \ {h} : \E j \in Entries(g) : j < k}) < kMaxSourceLidar

(* Where a raw point is in the vehicle: its own place in mm, turned and shifted by
   the extrinsics of the configuration file. *)
InMm(from) ==
  CASE from.kind = High -> from.raw
    [] from.kind = Low -> Tenfold(from.raw)
    [] from.kind = Spherical -> Cartesian(from.raw)

Mounted(from) ==
  LET param == Field(EntryOf(from.handle), "extrinsic_parameter", [none |-> 0])
      rpy == <<Field(param, "roll", 0), Field(param, "pitch", 0), Field(param, "yaw", 0)>>
      xyz == <<Field(param, "x", 0), Field(param, "y", 0), Field(param, "z", 0)>>
  IN Shift(Turn(rpy, InMm(from)), xyz)

Near(p, q) == \A k \in Axes : Abs(p[k] - q[k]) <= 9

PointsOf(points) == {points[k] : k \in DOMAIN points}

Published == {o \in outcomes : o.published}

(* Whatever is published of a lidar of the configuration file is in the vehicle's
   frame, to the centimetre that the low resolution has, if the lidar sends the
   type of data that is configured: through the parser, an entry that is repeated,
   the two scalings (lds_lidar.cpp:163-178, pub_handler.cpp:382-471), the handler
   that takes its parameters with its first packet and the device's queue. *)
PointsCompensated ==
  \A o \in Published : \A p \in PointsOf(o.points) :
    /\ Placed(p.from.handle)
    /\ (p.from.kind = Low) = (Field(EntryOf(p.from.handle), "pcl_data_type", -1) = Low)
    => Near(p.at, Mounted(p.from))

(* The same without a condition on the type of data: the translations of the
   configuration file and of the handlers are in mm, say comm.h:219-224. *)
TranslationInMm ==
  \A o \in Published : \A p \in PointsOf(o.points) :
    Placed(p.from.handle) => Near(p.at, Mounted(p.from))

FilterOn == setup.xfer_format = CustomMsg /\ FilterAsked(setup.filter)

Origins(points) == [k \in DOMAIN points |-> points[k].from]

(* The self filter takes the body of the vehicle and what lies outside of the crop,
   no more and no less, and keeps the order; frames with too few points before or
   after are not published; one bad box, or the other format, leaves everything as
   it is, and never half of it (lddc.cpp:246-395, 819-961). *)
FilterExact ==
  \A o \in outcomes :
    LET wanted == IF FilterOn THEN Outside(o.frame.points, setup.filter) ELSE o.frame.points
    IN /\ o.published <=>
            (FilterOn => /\ Len(o.frame.points) >= setup.filter.min_input_points
                         /\ Len(wanted) >= setup.filter.min_output_points)
       /\ o.published => Origins(o.points) = Origins(wanted)

(* A message has the points of one lidar, and with multi_topic the topic of a lidar
   of the configuration file carries its points and no others, whatever lidars are
   announced in between (lds_lidar.cpp:155-158, lds.cpp:161-178,
   lddc.cpp:1207-1230). *)
OwnTopic ==
  \A o \in Published : \A p \in PointsOf(o.points) :
    /\ \A q \in PointsOf(o.points) : p.from.handle = q.from.handle
    /\ setup.multi_topic =>
         \A h \in Handles :
           Placed(h) => (o.topic = <<"livox/lidar_", h>> <=> p.from.handle = h)

(* A subscriber of CustomMsg recovers the stamp of every point from the timebase and
   the offset, also when the self filter removed the first points, as long as the
   points of a frame came in order and within OffsetRange.  PointCloud2 has stamps as
   doubles: they are off by at most one in MantissaRange, so that they are exact only
   below it, and distinct stamps may become equal but never change their order
   (pub_handler.cpp:183-194, lddc.cpp:614-624, 657-661, 689). *)
TimesRecovered ==
  \A o \in Published : \A p \in PointsOf(o.points) :
    IF setup.xfer_format = PointCloud2
    THEN /\ Abs(p.time - p.from.stamp) * MantissaRange <= p.from.stamp
         /\ \A q \in PointsOf(o.points) : p.from.stamp <= q.from.stamp => p.time <= q.time
    ELSE LET first == o.frame.points[1].from.stamp
         IN p.from.stamp \in first .. first + OffsetRange - 1
              => o.frame.base_time + p.time = p.from.stamp

(* Any publish_freq gives a frame clock that never divides by zero and has room for
   its tolerance, and rings of a power of two that hold a second of frames
   (livox_ros_driver2.cpp:158-164, pub_handler.cpp:66-69, comm.cpp:42-48,
   ldq.h:39-49). *)
RatesSound ==
  phase = "run" =>
    /\ rates.ms > 0
    /\ 0 < rates.tolerance /\ rates.tolerance < rates.interval
    /\ \A i \in Indices :
         devices[i].size # 0 =>
           /\ \E k \in 0 .. 30 : devices[i].size = 2^k
           /\ 2 * devices[i].size >= publish_freq

=============================================================================
