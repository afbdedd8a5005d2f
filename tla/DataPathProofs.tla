--------------------------- MODULE DataPathProofs ---------------------------
(***************************************************************************)
(* Theorems about DataPath, for any lidars, configuration files, filters,  *)
(* frequencies and packets.                                                *)
(*                                                                         *)
(* The invariants come in layers, each inductive given those below it:     *)
(*   BaseInv   types; the filter is the one that was loaded; nothing flows *)
(*             before the threads run;                                     *)
(*   RatesSet  the rates and ring sizes are those of the frequency;        *)
(*   StartInv  while the devices are filled in, an index belongs to one    *)
(*             lidar, a device keeps the handle of the file, and a lidar   *)
(*             has the extrinsics of its last entry so far or has found    *)
(*             the table full of lidars that are listed before it;         *)
(*   FlowInv   the points in the handlers, the frames in the queues and    *)
(*             what was distributed are known: from one lidar, each point  *)
(*             in its place, with its stamp, the frame with the stamp of   *)
(*             its first point.                                            *)
(* PlacedIsFilled is where counting comes in: a lidar that is listed early *)
(* enough cannot have found the table full.                                *)
(***************************************************************************)
EXTENDS DataPath, SelfFilterProofs, FiniteSetTheorems

-----------------------------------------------------------------------------
(* Types. *)

LEMMA SetupFacts ==
  ASSUME NEW s \in Setups
  PROVE  /\ IsSetup(s)
         /\ s.publish_freq \in Int /\ s.multi_topic \in BOOLEAN /\ s.packets \in Nat
         /\ s.xfer_format \in {PointCloud2, CustomMsg}
         /\ s.filter \in FilterParams
         /\ s.senders \subseteq Handles /\ s.kinds \subseteq Kinds /\ s.stamps \subseteq Nat
         /\ \A cloud \in s.clouds : cloud \in Seq(Vectors)
BY DataPathAssumption DEF IsSetup

LEMMA KindNames ==
  /\ High # Low /\ High # Spherical /\ Low # Spherical
  /\ PointCloud2 # CustomMsg
  /\ \A kind \in Kinds : kind = High \/ kind = Low \/ kind = Spherical
BY DEF High, Low, Spherical, Kinds, PointCloud2, CustomMsg

LEMMA ParsedType ==
  ASSUME NEW config, IsEntry(config), HasIp(config)
  PROVE  ParseUserConfig(config) \in UserConfigs
<1> DEFINE value == Field(config, "extrinsic_parameter", [none |-> 0])
<1>1. config.ip \in Handles /\ Field(config, "pcl_data_type", -1) \in Int
  BY DEF IsEntry, HasIp, Field
<1>2. \A name : Field(value, name, 0) \in Int
  <2>1. \A name \in DOMAIN value : value[name] \in Int
    <3>1. CASE "extrinsic_parameter" \in DOMAIN config
      BY <3>1 DEF IsEntry, Field
    <3>2. CASE "extrinsic_parameter" \notin DOMAIN config
      <4>1. value = [none |-> 0]
        BY <3>2 DEF Field
      <4> HIDE DEF value
      <4> QED BY <4>1
    <3> QED BY <3>1, <3>2
  <2> HIDE DEF value
  <2> QED BY <2>1 DEF Field
<1> HIDE DEF value
<1>3. ParseExtrinsics(value) \in ExtrinsicParams
  BY <1>2 DEF ParseExtrinsics, ExtrinsicParams, Vectors
<1> QED BY <1>1, <1>3 DEF ParseUserConfig, UserConfigs, value

(* Centimetres: less than one of them is lost. *)
LEMMA TenthBounds ==
  ASSUME NEW x \in Int
  PROVE  Tenth(x) \in Int /\ 10 * Tenth(x) - x <= 9 /\ x - 10 * Tenth(x) <= 9
BY DEF Tenth

LEMMA ParamType ==
  ASSUME NEW config \in UserConfigs
  PROVE  LidarParam(config) \in ExtrinsicParams /\ LidarParam(config) # None
<1>1. config.extrinsic_param \in ExtrinsicParams
  BY DEF UserConfigs
<1> DEFINE xyz == config.extrinsic_param.xyz
<1>2. xyz \in Vectors /\ config.extrinsic_param.rpy \in Vectors
  BY <1>1 DEF ExtrinsicParams
<1>3. [k \in Axes |-> Tenth(xyz[k])] \in Vectors
  <2>1. \A k \in Axes : xyz[k] \in Int
    BY <1>2 DEF Vectors, Axes
  <2> HIDE DEF xyz
  <2>2. \A k \in Axes : Tenth(xyz[k]) \in Int
    BY <2>1, TenthBounds
  <2> QED BY <2>2 DEF Vectors, Axes
<1>4. LidarParam(config) \in ExtrinsicParams
  BY <1>2, <1>3 DEF LidarParam, ExtrinsicParams
<1> QED BY <1>4, DataPathAssumption

LEMMA TransformedType ==
  ASSUME NEW p \in Vectors, NEW m \in Vectors \X Vectors \X Vectors, NEW v \in Vectors
  PROVE  TransformPoint(p, m, v) \in Vectors
BY DEF TransformPoint, Dot, Vectors

LEMMA CartesianType == \A p \in Vectors : Cartesian(p) \in Vectors /\ Tenfold(p) \in Vectors
<1>1. ASSUME NEW p \in Vectors PROVE Cartesian(p) \in Vectors
  <2>1. p[1] \in Int /\ p[2] \in Int /\ p[3] \in Int
    BY DEF Vectors
  <2>2. Sin(p[2]) \in Int /\ Cos(p[2]) \in Int /\ Sin(p[3]) \in Int /\ Cos(p[3]) \in Int
    BY <2>1, TurnInt
  <2> QED BY <2>1, <2>2 DEF Cartesian, Vectors
<1>2. ASSUME NEW p \in Vectors PROVE Tenfold(p) \in Vectors
  BY DEF Tenfold, Vectors
<1> QED BY <1>1, <1>2

LEMMA RotationType ==
  ASSUME NEW rpy \in Vectors
  PROVE  ExtrinsicRotation(rpy) \in Vectors \X Vectors \X Vectors
<1>1. /\ Cos(rpy[1]) \in Int /\ Sin(rpy[1]) \in Int /\ Cos(rpy[2]) \in Int
      /\ Sin(rpy[2]) \in Int /\ Cos(rpy[3]) \in Int /\ Sin(rpy[3]) \in Int
  BY TurnInt DEF Vectors
<1> QED BY <1>1 DEF ExtrinsicRotation, Vectors

LEMMA HandlerType ==
  ASSUME NEW handler \in LidarPubHandlers, NEW param \in ExtrinsicParams
  PROVE  /\ SetLidarsExtParam(handler, param) \in LidarPubHandlers
         /\ SetLidarsExtParam(handler, param).is_set
         /\ SetLidarsExtParam(handler, param).cloud = handler.cloud
         /\ handler.is_set => SetLidarsExtParam(handler, param) = handler
         /\ ~handler.is_set =>
              /\ SetLidarsExtParam(handler, param).rotation = ExtrinsicRotation(param.rpy)
              /\ SetLidarsExtParam(handler, param).trans = param.xyz
<1>1. param.rpy \in Vectors /\ param.xyz \in Vectors
  BY DEF ExtrinsicParams
<1>2. ExtrinsicRotation(param.rpy) \in Vectors \X Vectors \X Vectors
  BY <1>1, RotationType
<1> QED BY <1>1, <1>2 DEF SetLidarsExtParam, LidarPubHandlers

LEMMA NewHandlerType ==
  NewHandler \in LidarPubHandlers /\ ~NewHandler.is_set /\ NewHandler.cloud = <<>>
BY DEF NewHandler, LidarPubHandlers, Vectors

PlaceOf(kind, raw, handler) ==
  CASE kind = High -> ProcessCartesianHighPoint(raw, handler)
    [] kind = Low -> ProcessCartesianLowPoint(raw, handler)
    [] kind = Spherical -> ProcessSphericalPoint(raw, handler)

(* The points of a packet, each with its place, its stamp and where it is from. *)
LEMMA PacketPoints ==
  ASSUME NEW h \in Handles, NEW kind \in Kinds, NEW raw \in Seq(Vectors), NEW stamp \in Nat,
         NEW handler \in LidarPubHandlers
  PROVE  LET points == PointCloudProcess(h, kind, raw, stamp, handler)
         IN /\ points \in Seq(Points)
            /\ DOMAIN points = DOMAIN raw
            /\ \A k \in DOMAIN raw :
                 /\ points[k].from = [handle |-> h, kind |-> kind, raw |-> raw[k],
                                      stamp |-> stamp + k - 1]
                 /\ points[k].time = stamp + k - 1
                 /\ points[k].at = PlaceOf(kind, raw[k], handler)
<1> DEFINE points == PointCloudProcess(h, kind, raw, stamp, handler)
           at(k) == PlaceOf(kind, raw[k], handler)
           point(k) == [at |-> at(k), time |-> stamp + k - 1,
                        from |-> [handle |-> h, kind |-> kind, raw |-> raw[k],
                                  stamp |-> stamp + k - 1]]
<1>1. points = [k \in DOMAIN raw |-> point(k)]
  BY DEF PointCloudProcess, PlaceOf
<1>2. Len(raw) \in Nat /\ DOMAIN raw = 1 .. Len(raw) /\ \A k \in DOMAIN raw : raw[k] \in Vectors
  BY SeqElements
<1>3. handler.rotation \in Vectors \X Vectors \X Vectors /\ handler.trans \in Vectors
  BY DEF LidarPubHandlers
<1>4. ASSUME NEW k \in DOMAIN raw PROVE at(k) \in Vectors
  <2>1. \A p \in Vectors : TransformPoint(p, handler.rotation, handler.trans) \in Vectors
    BY <1>3, TransformedType
  <2>2. ProcessCartesianHighPoint(raw[k], handler) \in Vectors
    BY <1>2, <2>1 DEF ProcessCartesianHighPoint
  <2>3. ProcessCartesianLowPoint(raw[k], handler) \in Vectors
    BY <1>2, <2>1, CartesianType DEF ProcessCartesianLowPoint
  <2>4. ProcessSphericalPoint(raw[k], handler) \in Vectors
    BY <1>2, <2>1, CartesianType DEF ProcessSphericalPoint
  <2> QED BY <2>2, <2>3, <2>4, KindNames, Zenon DEF PlaceOf
<1> HIDE DEF at, points
<1>5. \A k \in DOMAIN raw : point(k) \in Points
  BY <1>2, <1>4 DEF Points
<1>6. points \in Seq(Points) /\ DOMAIN points = DOMAIN raw
  <2> HIDE DEF point
  <2> QED BY <1>1, <1>2, <1>5
<1>7. \A k \in DOMAIN raw : points[k] = point(k)
  <2> HIDE DEF point
  <2> QED BY <1>1
<1>8. \A k \in DOMAIN raw :
        /\ points[k].from = [handle |-> h, kind |-> kind, raw |-> raw[k], stamp |-> stamp + k - 1]
        /\ points[k].time = stamp + k - 1
        /\ points[k].at = at(k)
  <2> TAKE k \in DOMAIN raw
  <2>1. points[k] = point(k)
    BY <1>7
  <2> QED BY <2>1
<1> QED BY <1>6, <1>8 DEF at, points

LEMMA PacketType ==
  ASSUME NEW h \in Handles, NEW kind \in Kinds, NEW raw \in Seq(Vectors), NEW stamp \in Nat,
         NEW handler \in LidarPubHandlers
  PROVE  /\ PointCloudProcess(h, kind, raw, stamp, handler) \in Seq(Points)
         /\ DOMAIN PointCloudProcess(h, kind, raw, stamp, handler) = DOMAIN raw
<1> DEFINE points == PointCloudProcess(h, kind, raw, stamp, handler)
<1>1. points \in Seq(Points) /\ DOMAIN points = DOMAIN raw
  BY PacketPoints
<1> QED BY <1>1

LEMMA FreeIndex ==
  ASSUME map_index \in [Handles -> Indices \cup {None}], NEW h \in Handles
  PROVE  /\ GetFreeIndex(h) \in Indices \cup {None}
         /\ map_index[h] # None => GetFreeIndex(h) = map_index[h]
         /\ map_index[h] = None /\ FreeIndices = {} => GetFreeIndex(h) = None
         /\ map_index[h] = None /\ FreeIndices # {} =>
              GetFreeIndex(h) \in FreeIndices /\ GetFreeIndex(h) # None
<1>1. CASE map_index[h] # None
  BY <1>1 DEF GetFreeIndex
<1>2. CASE map_index[h] = None /\ FreeIndices = {}
  BY <1>2 DEF GetFreeIndex
<1>3. CASE map_index[h] = None /\ FreeIndices # {}
  <2>1. FreeIndices \subseteq Indices /\ FreeIndices \in SUBSET Nat
    BY DataPathAssumption DEF FreeIndices, Indices
  <2>2. \E i \in FreeIndices : \A j \in FreeIndices : i <= j
    BY <1>3, <2>1, LeastElement
  <2>3. GetFreeIndex(h) \in FreeIndices
    BY <1>3, <2>2 DEF GetFreeIndex
  <2> QED BY <1>3, <2>1, <2>3, DataPathAssumption
<1> QED BY <1>1, <1>2, <1>3

LEMMA PowerType == \A i \in 0 .. 30 : 2^i \in Nat
<1>1. /\ 2^0 \in Nat /\ 2^1 \in Nat /\ 2^2 \in Nat /\ 2^3 \in Nat /\ 2^4 \in Nat /\ 2^5 \in Nat
      /\ 2^6 \in Nat /\ 2^7 \in Nat /\ 2^8 \in Nat /\ 2^9 \in Nat
      /\ 2^10 \in Nat /\ 2^11 \in Nat /\ 2^12 \in Nat /\ 2^13 \in Nat
      /\ 2^14 \in Nat /\ 2^15 \in Nat /\ 2^16 \in Nat /\ 2^17 \in Nat
      /\ 2^18 \in Nat /\ 2^19 \in Nat /\ 2^20 \in Nat /\ 2^21 \in Nat
      /\ 2^22 \in Nat /\ 2^23 \in Nat /\ 2^24 \in Nat /\ 2^25 \in Nat
      /\ 2^26 \in Nat /\ 2^27 \in Nat /\ 2^28 \in Nat /\ 2^29 \in Nat
      /\ 2^30 \in Nat
  OBVIOUS
<1>2. ASSUME NEW i \in 0 .. 30 PROVE 2^i \in Nat
  <2>1. \/ i = 0 \/ i = 1 \/ i = 2 \/ i = 3 \/ i = 4 \/ i = 5 \/ i = 6 \/ i = 7
        \/ i = 8 \/ i = 9 \/ i = 10 \/ i = 11 \/ i = 12 \/ i = 13 \/ i = 14 \/ i = 15
        \/ i = 16 \/ i = 17 \/ i = 18 \/ i = 19 \/ i = 20 \/ i = 21 \/ i = 22 \/ i = 23
        \/ i = 24 \/ i = 25 \/ i = 26 \/ i = 27 \/ i = 28 \/ i = 29 \/ i = 30
    OBVIOUS
  <2> QED BY <1>1, <2>1
<1> QED BY <1>2

LEMMA QueueSize ==
  ASSUME NEW f \in 1 .. 200
  PROVE  LET size == RoundupPowerOf2(CalculatePacketQueueSize(f))
         IN size \in Nat /\ (\E k \in 0 .. 30 : size = 2^k) /\ 2 * size >= f
<1> DEFINE least == CalculatePacketQueueSize(f)
           i == CHOOSE i \in 0 .. 30 : least <= 2^i /\ (i > 0 => 2^(i - 1) < least)
<1>1. least \in 10 .. 101 /\ 2 * least >= f
  BY DEF CalculatePacketQueueSize
<1>2. 2^3 = 8 /\ 2^4 = 16 /\ 2^5 = 32 /\ 2^6 = 64 /\ 2^7 = 128
  OBVIOUS
<1>3. \E k \in 0 .. 30 : least <= 2^k /\ (k > 0 => 2^(k - 1) < least)
  <2> HIDE DEF least
  <2>1. CASE least \in 10 .. 16
    <3>1. 4 \in 0 .. 30 /\ least <= 2^4 /\ 2^(4 - 1) < least
      BY <1>2, <2>1
    <3> QED BY <3>1
  <2>2. CASE least \in 17 .. 32
    <3>1. 5 \in 0 .. 30 /\ least <= 2^5 /\ 2^(5 - 1) < least
      BY <1>2, <2>2
    <3> QED BY <3>1
  <2>3. CASE least \in 33 .. 64
    <3>1. 6 \in 0 .. 30 /\ least <= 2^6 /\ 2^(6 - 1) < least
      BY <1>2, <2>3
    <3> QED BY <3>1
  <2>4. CASE least \in 65 .. 128
    <3>1. 7 \in 0 .. 30 /\ least <= 2^7 /\ 2^(7 - 1) < least
      BY <1>2, <2>4
    <3> QED BY <3>1
  <2> QED BY <1>1, <2>1, <2>2, <2>3, <2>4
<1>4. i \in 0 .. 30 /\ least <= 2^i
  <2> HIDE DEF least
  <2> QED BY <1>3
<1>5. RoundupPowerOf2(least) = 2^i
  BY DEF RoundupPowerOf2
<1> HIDE DEF i
<1>6. 2^i \in Nat
  BY <1>4, PowerType
<1> HIDE DEF least
<1>7. 2 * 2^i >= f
  BY <1>1, <1>4, <1>6
<1> QED BY <1>4, <1>5, <1>6, <1>7 DEF least

LEMMA Quotient ==
  ASSUME NEW n \in Nat, NEW m \in Nat, NEW f \in Nat, NEW bound \in Nat,
         f > 0, f <= bound, bound * m <= n
  PROVE  n \div f \in Nat /\ n \div f >= m
<1> DEFINE q == n \div f
<1>1. q \in Nat /\ f * q + f > n
  BY SMT
<1> HIDE DEF q
<1>2. ASSUME q < m PROVE FALSE
  <2>1. q + 1 <= m
    BY <1>1, <1>2, SMT
  <2>2. f * (q + 1) <= f * m
    BY <1>1, <2>1, SMT
  <2>3. f * m <= bound * m
    BY SMT
  <2>4. f * (q + 1) = f * q + f
    BY <1>1, SMT
  <2>5. f * (q + 1) \in Nat /\ f * m \in Nat /\ bound * m \in Nat
    BY <1>1, SMT
  <2> QED BY <1>1, <2>2, <2>3, <2>4, <2>5, SMT
<1> QED BY <1>1, <1>2, SMT DEF q

LEMMA RateValues ==
  ASSUME NEW f \in 1 .. 200
  PROVE  LET r == SetPointCloudConfig(f)
         IN /\ r \in [interval : Nat, tolerance : Int, ms : Nat]
            /\ r.ms > 0 /\ 0 < r.tolerance /\ r.tolerance < r.interval
<1> DEFINE q == 2000000000 \div f
<1>1. q \in Nat /\ q >= 10000000
  <2>1. 200 * 10000000 <= 2000000000
    BY SMT
  <2> QED BY <2>1, Quotient, SMT
<1>2. SetPointCloudConfig(f) = [interval |-> q, tolerance |-> q - 1000000, ms |-> q \div 1000000]
  BY SMT DEF SetPointCloudConfig
<1> HIDE DEF q
<1>3. q \div 1000000 \in Nat /\ q \div 1000000 > 0
  BY <1>1, SMT
<1> QED BY <1>1, <1>2, <1>3, SMT

LEMMA FrameType ==
  ASSUME NEW cloud \in Seq(Points), cloud # <<>>
  PROVE  Frame(cloud) \in Frames
<1>1. cloud[1] \in Points /\ cloud \in Seq(Points) \ {<<>>}
  OBVIOUS
<1>2. cloud[1].time \in Int
  BY <1>1 DEF Points
<1> QED BY <1>1, <1>2 DEF Frame, Frames

LEMMA StoredType ==
  ASSUME map_index \in [Handles -> Indices \cup {None}], devices \in [Indices -> LidarDevices],
         publish_freq \in 1 .. 200, NEW h \in Handles, NEW frame \in Frames
  PROVE  StoragePointData(h, frame) \in [Indices -> LidarDevices]
<1>1. CASE map_index[h] = None
  BY <1>1 DEF StoragePointData
<1>2. CASE map_index[h] # None
  <2> DEFINE i == map_index[h]
             device == devices[i]
             size == IF device.size = 0
                       THEN RoundupPowerOf2(CalculatePacketQueueSize(publish_freq))
                       ELSE device.size
             queue == IF Len(device.queue) < size THEN Append(device.queue, frame)
                      ELSE device.queue
             new == [device EXCEPT !.queue = queue, !.size = size]
  <2>1. i \in Indices /\ device \in LidarDevices
    BY <1>2
  <2>2. device.queue \in Seq(Frames) /\ size \in Nat
    BY <2>1, QueueSize DEF LidarDevices
  <2>3. StoragePointData(h, frame) = [devices EXCEPT ![i] = new]
    BY <1>2, <2>1 DEF StoragePointData
  <2> HIDE DEF size, i
  <2>4. new \in LidarDevices
    <3>1. queue \in Seq(Frames)
      BY <2>2
    <3> HIDE DEF device, queue
    <3> QED BY <2>1, <2>2, <3>1 DEF LidarDevices
  <2> HIDE DEF new
  <2> QED BY <2>1, <2>3, <2>4
<1> QED BY <1>1, <1>2

-----------------------------------------------------------------------------
(* Stamps as doubles. *)

LEMMA Powers ==
  /\ 2^0 = 1 /\ 2^1 = 2 /\ 2^2 = 4 /\ 2^3 = 8 /\ 2^4 = 16 /\ 2^5 = 32
  /\ 2^6 = 64 /\ 2^7 = 128 /\ 2^8 = 256 /\ 2^9 = 512 /\ 2^10 = 1024 /\ 2^11 = 2048
OBVIOUS

LEMMA PowerSteps ==
  /\ \A k \in 0 .. 11 : 2^k \in Nat \ {0}
  /\ \A k \in 1 .. 11 : 2^k = 2 * 2^(k - 1)
  /\ \A j, k \in 0 .. 11 : j <= k => 2^j <= 2^k
<1> DEFINE power == [k \in 0 .. 11 |-> 2^k]
<1>1. \A k \in 0 .. 11 : power[k] = 2^k
  OBVIOUS
<1>2. /\ power[0] = 1 /\ power[1] = 2 /\ power[2] = 4 /\ power[3] = 8
      /\ power[4] = 16 /\ power[5] = 32 /\ power[6] = 64 /\ power[7] = 128
      /\ power[8] = 256 /\ power[9] = 512 /\ power[10] = 1024 /\ power[11] = 2048
  <2> HIDE DEF power
  <2>1. /\ 0 \in 0 .. 11 /\ 1 \in 0 .. 11 /\ 2 \in 0 .. 11 /\ 3 \in 0 .. 11 /\ 4 \in 0 .. 11
        /\ 5 \in 0 .. 11 /\ 6 \in 0 .. 11 /\ 7 \in 0 .. 11 /\ 8 \in 0 .. 11 /\ 9 \in 0 .. 11
        /\ 10 \in 0 .. 11 /\ 11 \in 0 .. 11
    OBVIOUS
  <2> QED BY <1>1, <2>1, Powers
<1> HIDE DEF power
<1>3. /\ \A k \in 0 .. 11 : power[k] \in Nat \ {0}
      /\ \A k \in 1 .. 11 : power[k] = 2 * power[k - 1]
      /\ \A j, k \in 0 .. 11 : j <= k => power[j] <= power[k]
  BY <1>2
<1>4. \A k \in 1 .. 11 : k \in 0 .. 11 /\ k - 1 \in 0 .. 11
  OBVIOUS
<1> QED BY <1>1, <1>3, <1>4

LEMMA SpacingFacts ==
  ASSUME NEW x \in Int
  PROVE  \E k \in 0 .. 11 : /\ Spacing(x) = 2^k
                            /\ k > 0 => MantissaRange * 2^(k - 1) <= x
                            /\ k < 11 => x < MantissaRange * 2^k
<1> DEFINE m == MantissaRange
           Fits(k) == (k > 0 => m * 2^(k - 1) <= x) /\ (k < 11 => x < m * 2^k)
           chosen == CHOOSE k \in 0 .. 11 : Fits(k)
<1>1. m \in Nat
  BY DataPathAssumption
<1>2. \E k \in 0 .. 11 : Fits(k)
  <2> HIDE DEF m
  <2> DEFINE Below(k) == x < m * 2^k
  <2>1. CASE Below(0)
    BY <2>1
  <2>2. CASE ~Below(10)
    <3>1. 11 - 1 = 10 /\ m * 2^10 \in Nat
      BY <1>1, Powers
    <3>2. Fits(11)
      BY <2>2, <3>1
    <3> QED BY <3>2
  <2>3. CASE \E k \in 1 .. 10 : Below(k) /\ ~Below(k - 1)
    <3>1. PICK k \in 1 .. 10 : Below(k) /\ ~Below(k - 1)
      BY <2>3
    <3>2. m * 2^(k - 1) \in Int
      <4>1. k - 1 \in 0 .. 11
        OBVIOUS
      <4>2. 2^(k - 1) \in Nat
        BY <4>1, PowerSteps
      <4> QED BY <1>1, <4>2
    <3>3. Fits(k) /\ k \in 0 .. 11
      BY <3>1, <3>2
    <3> HIDE DEF Fits
    <3> QED BY <3>3
  <2>4. Below(0) \/ ~Below(10) \/ \E k \in 1 .. 10 : Below(k) /\ ~Below(k - 1)
    <3> HIDE DEF Below
    <3>1. /\ 1 - 1 = 0 /\ 2 - 1 = 1 /\ 3 - 1 = 2 /\ 4 - 1 = 3 /\ 5 - 1 = 4
          /\ 6 - 1 = 5 /\ 7 - 1 = 6 /\ 8 - 1 = 7 /\ 9 - 1 = 8 /\ 10 - 1 = 9
      OBVIOUS
    <3>2. SUFFICES ASSUME ~Below(0), \A k \in 1 .. 10 : Below(k) => Below(k - 1)
                   PROVE  ~Below(10)
      OBVIOUS
    <3>3. ~Below(1) /\ ~Below(2) /\ ~Below(3) /\ ~Below(4) /\ ~Below(5)
      <4>1. 1 \in 1 .. 10 /\ 2 \in 1 .. 10 /\ 3 \in 1 .. 10 /\ 4 \in 1 .. 10 /\ 5 \in 1 .. 10
        OBVIOUS
      <4> QED BY <3>1, <3>2, <4>1
    <3>4. ~Below(6) /\ ~Below(7) /\ ~Below(8) /\ ~Below(9) /\ ~Below(10)
      <4>1. 6 \in 1 .. 10 /\ 7 \in 1 .. 10 /\ 8 \in 1 .. 10 /\ 9 \in 1 .. 10 /\ 10 \in 1 .. 10
        OBVIOUS
      <4> QED BY <3>1, <3>2, <3>3, <4>1
    <3> QED BY <3>4
  <2> QED BY <2>1, <2>2, <2>3, <2>4
<1>3. chosen \in 0 .. 11 /\ Fits(chosen)
  <2> HIDE DEF Fits
  <2> QED BY <1>2
<1>4. Spacing(x) = 2^chosen
  BY DEF Spacing
<1> HIDE DEF chosen
<1> QED BY <1>3, <1>4

(* To the nearest multiple of a step. *)
LEMMA NearestMultiple ==
  ASSUME NEW x \in Int, NEW s \in Nat \ {0}, Spacing(x) = s
  PROVE  /\ x \div s \in Int
         /\ (x \div s) * s <= x /\ x < ((x \div s) + 1) * s
         /\ Double(x) = (x \div s) * s \/ Double(x) = ((x \div s) + 1) * s
         /\ Double(x) \in Int
         /\ 2 * (Double(x) - x) <= s /\ 2 * (x - Double(x)) <= s
         /\ s = 1 => Double(x) = x
<1> DEFINE q == x \div s
           r == x % s
           down == 2 * r < s \/ (2 * r = s /\ q % 2 = 0)
<1>1. q \in Int /\ r \in 0 .. s - 1 /\ x = s * q + r
  BY SMT
<1>2. Double(x) = IF down THEN q * s ELSE (q + 1) * s
  BY DEF Double
<1> HIDE DEF q, r
<1>3. q * s = s * q /\ (q + 1) * s = s * q + s /\ s * q \in Int
  BY <1>1, SMT
<1> DEFINE b == s * q
<1>4. x = b + r /\ b \in Int /\ q * s = b /\ (q + 1) * s = b + s
  BY <1>1, <1>3
<1> HIDE DEF b
<1>5. Double(x) = IF down THEN b ELSE b + s
  BY <1>2, <1>4
<1>6. b <= x /\ x < b + s
  BY <1>1, <1>4
<1> DEFINE Goal == /\ q \in Int
                   /\ q * s <= x /\ x < (q + 1) * s
                   /\ Double(x) = q * s \/ Double(x) = (q + 1) * s
                   /\ Double(x) \in Int
                   /\ 2 * (Double(x) - x) <= s /\ 2 * (x - Double(x)) <= s
                   /\ s = 1 => Double(x) = x
<1>7. ASSUME down PROVE Goal
  <2>1. Double(x) = b /\ 2 * r <= s
    BY <1>1, <1>5, <1>7
  <2>2. s = 1 => x = b
    BY <1>1, <1>4
  <2> QED BY <1>1, <1>4, <1>6, <2>1, <2>2
<1>8. ASSUME ~down PROVE Goal
  <2>1. Double(x) = b + s /\ 2 * r >= s
    BY <1>1, <1>5, <1>8
  <2>2. s # 1
    BY <1>1, <2>1
  <2>3. /\ b + s \in Int
        /\ 2 * (b + s - x) <= s /\ 2 * (x - (b + s)) <= s
    BY <1>1, <1>4, <2>1
  <2>4. q * s <= x /\ x < (q + 1) * s /\ Double(x) = (q + 1) * s
    BY <1>4, <1>6, <2>1
  <2>5. Double(x) \in Int /\ 2 * (Double(x) - x) <= s /\ 2 * (x - Double(x)) <= s
    BY <1>4, <2>1, <2>3
  <2> QED BY <1>1, <2>2, <2>4, <2>5
<1>9. Goal
  BY <1>7, <1>8
<1> QED BY <1>9 DEF q

LEMMA DoubleType == \A x \in Int : Double(x) \in Int
<1> TAKE x \in Int
<1>1. PICK k \in 0 .. 11 : Spacing(x) = 2^k
  BY SpacingFacts
<1>2. 2^k \in Nat \ {0}
  BY PowerSteps
<1> QED BY <1>1, <1>2, NearestMultiple

(* A stamp as a double is off by at most one in MantissaRange. *)
LEMMA DoubleIsClose ==
  ASSUME NEW x \in Nat
  PROVE  Abs(Double(x) - x) * MantissaRange <= x
<1> DEFINE m == MantissaRange
           d == Abs(Double(x) - x)
<1>1. m \in Nat
  BY DataPathAssumption
<1>2. PICK k \in 0 .. 11 : Spacing(x) = 2^k /\ (k > 0 => m * 2^(k - 1) <= x)
  BY SpacingFacts
<1>3. 2^k \in Nat \ {0}
  BY PowerSteps
<1>4. Double(x) \in Int /\ d \in Nat /\ 2 * d <= 2^k
  <2>1. /\ Double(x) \in Int
        /\ 2 * (Double(x) - x) <= 2^k /\ 2 * (x - Double(x)) <= 2^k
    BY <1>2, <1>3, NearestMultiple
  <2> QED BY <1>3, <2>1 DEF Abs
<1>5. CASE k = 0
  <2>1. Double(x) = x
    BY <1>2, <1>3, <1>5, Powers, NearestMultiple
  <2>2. d = 0
    BY <2>1 DEF Abs
  <2> QED BY <1>1, <2>2
<1>6. CASE k > 0
  <2> DEFINE half == 2^(k - 1)
  <2>1. half \in Nat /\ 2^k = 2 * half
    <3>1. k \in 1 .. 11 /\ k - 1 \in 0 .. 11
      BY <1>6
    <3> QED BY <3>1, PowerSteps
  <2>2. m * half <= x
    BY <1>2, <1>6
  <2> HIDE DEF half, d, m
  <2>3. d <= half
    BY <1>4, <2>1
  <2>4. d * m <= half * m /\ half * m = m * half /\ d * m \in Nat /\ half * m \in Nat
    BY <1>1, <1>4, <2>1, <2>3, SMT
  <2> QED BY <2>2, <2>4 DEF d, m
<1> QED BY <1>5, <1>6

(* With one spacing, of two stamps the later is not the smaller double. *)
LEMMA SameSpacing ==
  ASSUME NEW x \in Int, NEW y \in Int, x <= y, NEW s \in Nat \ {0},
         Spacing(x) = s, Spacing(y) = s
  PROVE  Double(x) <= Double(y)
<1> DEFINE qx == x \div s
           qy == y \div s
           rx == x % s
           ry == y % s
<1>1. /\ qx \in Int /\ rx \in 0 .. s - 1 /\ x = s * qx + rx
      /\ qy \in Int /\ ry \in 0 .. s - 1 /\ y = s * qy + ry
  BY SMT
<1>2. /\ Double(x) = qx * s \/ Double(x) = (qx + 1) * s
      /\ Double(y) = qy * s \/ Double(y) = (qy + 1) * s
      /\ x < (qx + 1) * s /\ qy * s <= y /\ qx * s <= x /\ y < (qy + 1) * s
  BY NearestMultiple
<1>3. CASE qx = qy
  <2>1. rx <= ry
    <3> HIDE DEF qx, qy, rx, ry
    <3> DEFINE b == s * qx
    <3>1. b \in Int /\ x = b + rx /\ y = b + ry
      BY <1>1, <1>3
    <3> HIDE DEF b
    <3> QED BY <1>1, <3>1
  <2>2. /\ Double(x) = IF 2 * rx < s \/ (2 * rx = s /\ qx % 2 = 0) THEN qx * s ELSE (qx + 1) * s
        /\ Double(y) = IF 2 * ry < s \/ (2 * ry = s /\ qy % 2 = 0) THEN qy * s ELSE (qy + 1) * s
    BY DEF Double
  <2> HIDE DEF qx, qy, rx, ry
  <2>3. /\ qx * s \in Int /\ (qx + 1) * s \in Int /\ qx * s <= (qx + 1) * s
    BY <1>1, SMT
  <2> QED BY <1>1, <1>3, <2>1, <2>2, <2>3
<1>4. CASE qx < qy
  <2> HIDE DEF qx, qy, rx, ry
  <2>1. qx + 1 <= qy
    BY <1>1, <1>4
  <2>2. (qx + 1) * s <= qy * s
    BY <1>1, <2>1, SMT
  <2>3. /\ qx * s \in Int /\ (qx + 1) * s \in Int /\ qx * s <= (qx + 1) * s
        /\ qy * s \in Int /\ (qy + 1) * s \in Int /\ qy * s <= (qy + 1) * s
    BY <1>1, SMT
  <2> QED BY <1>2, <2>2, <2>3
<1>5. ~(qy < qx)
  <2> SUFFICES ASSUME qy < qx PROVE FALSE
    OBVIOUS
  <2> HIDE DEF qx, qy, rx, ry
  <2>1. qy + 1 <= qx
    BY <1>1
  <2>2. (qy + 1) * s <= qx * s /\ (qy + 1) * s \in Int /\ qx * s \in Int
    BY <1>1, <2>1, SMT
  <2> QED BY <1>2, <2>2
<1> QED BY <1>1, <1>3, <1>4, <1>5

(* A multiple of its step that a number does not reach, or has reached, bounds its
   double too. *)
LEMMA MultipleBounds ==
  ASSUME NEW x \in Int, NEW s \in Nat \ {0}, Spacing(x) = s, NEW n \in Int
  PROVE  /\ x < n * s => Double(x) <= n * s
         /\ n * s <= x => n * s <= Double(x)
<1> DEFINE q == x \div s
<1>1. /\ q \in Int /\ q * s <= x /\ x < (q + 1) * s
      /\ Double(x) = q * s \/ Double(x) = (q + 1) * s
  BY NearestMultiple
<1> HIDE DEF q
<1>2. q * s \in Int /\ (q + 1) * s \in Int /\ n * s \in Int /\ q * s <= (q + 1) * s
  BY <1>1, SMT
<1>3. ASSUME x < n * s PROVE Double(x) <= n * s
  <2>1. q < n
    <3> SUFFICES ASSUME n <= q PROVE FALSE
      BY <1>1
    <3>1. n * s <= q * s
      BY <1>1, SMT
    <3> QED BY <1>1, <1>2, <1>3, <3>1
  <2>2. q + 1 <= n
    BY <1>1, <2>1
  <2>3. (q + 1) * s <= n * s
    BY <1>1, <2>2, SMT
  <2> QED BY <1>1, <1>2, <2>3
<1>4. ASSUME n * s <= x PROVE n * s <= Double(x)
  <2>1. n <= q
    <3> SUFFICES ASSUME q < n PROVE FALSE
      BY <1>1
    <3>1. q + 1 <= n
      BY <1>1
    <3>2. (q + 1) * s <= n * s
      BY <1>1, <3>1, SMT
    <3> QED BY <1>1, <1>2, <1>4, <3>2
  <2>2. n * s <= q * s
    BY <1>1, <2>1, SMT
  <2> QED BY <1>1, <1>2, <2>2
<1> QED BY <1>3, <1>4

(* Casting never changes the order of two stamps. *)
LEMMA DoubleKeepsOrder ==
  ASSUME NEW x \in Int, NEW y \in Int, x <= y
  PROVE  Double(x) <= Double(y)
<1> DEFINE m == MantissaRange
           half == m \div 2
<1>1. m \in Nat /\ half \in Nat /\ m = 2 * half
  <2>1. m \in Nat /\ m % 2 = 0
    BY DataPathAssumption
  <2> HIDE DEF m
  <2> QED BY <2>1
<1>2. PICK j \in 0 .. 11 : /\ Spacing(x) = 2^j /\ (j > 0 => m * 2^(j - 1) <= x)
                           /\ (j < 11 => x < m * 2^j)
  BY SpacingFacts
<1>3. PICK k \in 0 .. 11 : /\ Spacing(y) = 2^k /\ (k > 0 => m * 2^(k - 1) <= y)
                           /\ (k < 11 => y < m * 2^k)
  BY SpacingFacts
<1> HIDE DEF m, half
<1>4. 2^j \in Nat \ {0} /\ 2^k \in Nat \ {0}
  BY PowerSteps
<1>5. CASE j = k
  BY <1>2, <1>3, <1>4, <1>5, SameSpacing
<1>6. CASE j < k
  <2> DEFINE a == 2^j
             b == 2^(k - 1)
             c == 2^k
  <2>1. a \in Nat /\ b \in Nat /\ c = 2 * b /\ a <= b
    <3>1. k \in 1 .. 11 /\ k - 1 \in 0 .. 11 /\ j <= k - 1
      BY <1>6
    <3> QED BY <3>1, PowerSteps
  <2>2. x < m * a /\ m * b <= y
    BY <1>2, <1>3, <1>6
  <2> HIDE DEF a, b, c
  <2>3. m * a <= m * b /\ m * b = half * c /\ m * a \in Int /\ half * c \in Int
    BY <1>1, <2>1, SMT
  <2>4. /\ Spacing(x) = a /\ a \in Nat \ {0} /\ m \in Int
        /\ Spacing(y) = c /\ c \in Nat \ {0} /\ half \in Int
    BY <1>1, <1>2, <1>3, <1>4 DEF a, c
  <2>5. Double(x) <= m * a
    BY <2>2, <2>4, MultipleBounds
  <2>6. half * c <= Double(y)
    BY <2>2, <2>3, <2>4, MultipleBounds
  <2> QED BY <2>3, <2>5, <2>6, DoubleType
<1>7. ~(k < j)
  <2> SUFFICES ASSUME k < j PROVE FALSE
    OBVIOUS
  <2> DEFINE a == 2^(j - 1)
             c == 2^k
  <2>1. a \in Nat /\ c \in Nat /\ c <= a
    <3>1. j - 1 \in 0 .. 11 /\ k <= j - 1
      OBVIOUS
    <3> QED BY <3>1, PowerSteps
  <2>2. m * a <= x /\ y < m * c
    BY <1>2, <1>3
  <2> HIDE DEF a, c
  <2>3. m * c <= m * a /\ m * c \in Int /\ m * a \in Int
    BY <1>1, <2>1, SMT
  <2> QED BY <2>2, <2>3
<1> QED BY <1>5, <1>6, <1>7

-----------------------------------------------------------------------------
(* Messages. *)

(* A message as a subscriber gets it: points of the frame, with their places and
   origins, and with the stamp or the offset. *)
LEMMA FilledPoints ==
  ASSUME NEW frame \in Frames
  PROVE  /\ FillPointsToCustomMsg(frame) \in Seq(Points)
         /\ DOMAIN FillPointsToCustomMsg(frame) = DOMAIN frame.points
         /\ Len(FillPointsToCustomMsg(frame)) = Len(frame.points)
         /\ \A k \in DOMAIN frame.points :
              LET p == FillPointsToCustomMsg(frame)[k]
              IN /\ p.at = frame.points[k].at /\ p.from = frame.points[k].from
                 /\ p.time = (frame.points[k].time - frame.base_time) % OffsetRange
<1> DEFINE points == frame.points
           filled(k) == [points[k] EXCEPT !.time = (points[k].time - frame.base_time) % OffsetRange]
<1>1. points \in Seq(Points) /\ frame.base_time \in Int
  BY DEF Frames
<1>2. FillPointsToCustomMsg(frame) = [k \in DOMAIN points |-> filled(k)]
  BY DEF FillPointsToCustomMsg
<1> HIDE DEF points
<1>3. Len(points) \in Nat /\ DOMAIN points = 1 .. Len(points)
      /\ \A k \in DOMAIN points : points[k] \in Points
  BY <1>1, SeqElements
<1>4. ASSUME NEW k \in DOMAIN points
      PROVE  /\ filled(k) \in Points
             /\ filled(k).at = points[k].at /\ filled(k).from = points[k].from
             /\ filled(k).time = (points[k].time - frame.base_time) % OffsetRange
  <2>1. points[k] \in Points /\ points[k].time \in Int
    BY <1>3 DEF Points
  <2>2. (points[k].time - frame.base_time) % OffsetRange \in Int
    BY <1>1, <2>1, DataPathAssumption
  <2> QED BY <2>1, <2>2 DEF Points
<1> HIDE DEF filled
<1>5. [k \in DOMAIN points |-> filled(k)] \in Seq(Points)
  BY <1>3, <1>4
<1> QED BY <1>2, <1>3, <1>4, <1>5 DEF points

LEMMA CastPoints ==
  ASSUME NEW frame \in Frames
  PROVE  LET message == InitPointcloud2Msg(frame)
         IN /\ message.accepted = TRUE
            /\ message.points \in Seq(Points)
            /\ DOMAIN message.points = DOMAIN frame.points
            /\ \A k \in DOMAIN frame.points :
                 LET p == message.points[k]
                 IN /\ p.at = frame.points[k].at /\ p.from = frame.points[k].from
                    /\ p.time = Double(frame.points[k].time)
<1> DEFINE points == frame.points
           cast(k) == [points[k] EXCEPT !.time = Double(points[k].time)]
           casts == [k \in DOMAIN points |-> cast(k)]
<1>1. points \in Seq(Points)
  BY DEF Frames
<1>2. InitPointcloud2Msg(frame) = [accepted |-> TRUE, points |-> casts]
  BY DEF InitPointcloud2Msg
<1> HIDE DEF points
<1>3. Len(points) \in Nat /\ DOMAIN points = 1 .. Len(points)
      /\ \A k \in DOMAIN points : points[k] \in Points
  BY <1>1, SeqElements
<1>4. ASSUME NEW k \in DOMAIN points
      PROVE  /\ cast(k) \in Points
             /\ cast(k).at = points[k].at /\ cast(k).from = points[k].from
             /\ cast(k).time = Double(points[k].time)
  <2>1. points[k] \in Points /\ points[k].time \in Int
    BY <1>3 DEF Points
  <2>2. Double(points[k].time) \in Int
    BY <2>1, DoubleType
  <2> QED BY <2>1, <2>2 DEF Points
<1> HIDE DEF cast
<1>5. casts \in Seq(Points) /\ DOMAIN casts = DOMAIN points
      /\ \A k \in DOMAIN points : casts[k] = cast(k)
  BY <1>3, <1>4
<1> HIDE DEF casts
<1>6. InitPointcloud2Msg(frame).accepted = TRUE /\ InitPointcloud2Msg(frame).points = casts
  BY <1>2
<1> QED BY <1>4, <1>5, <1>6 DEF points

(* A point of a message is a point of its frame, with its place and its origin. *)
IsPointOf(p, frame) ==
  \E j \in DOMAIN frame.points :
    /\ p.at = frame.points[j].at /\ p.from = frame.points[j].from
    /\ p.time = IF setup.xfer_format = PointCloud2 THEN Double(frame.points[j].time)
                ELSE (frame.points[j].time - frame.base_time) % OffsetRange

LEMMA MessagePoints ==
  ASSUME setup \in Setups, filter = LoadSelfFilterConfig(setup.filter), NEW frame \in Frames
  PROVE  LET message == Message(frame)
         IN /\ message.accepted \in BOOLEAN
            /\ message.points \in Seq(Points)
            /\ \A k \in DOMAIN message.points : IsPointOf(message.points[k], frame)
<1> DEFINE message == Message(frame)
           filled == FillPointsToCustomMsg(frame)
           kept == KeptPoints(filled, filter)
<1>1. frame.points \in Seq(Points)
  BY DEF Frames
<1>2. CASE setup.xfer_format = PointCloud2
  <2>1. message = InitPointcloud2Msg(frame)
    BY <1>2 DEF Message
  <2> HIDE DEF message
  <2> QED BY <1>2, <2>1, CastPoints DEF IsPointOf, message
<1>3. CASE setup.xfer_format # PointCloud2
  <2>1. message = ApplySelfFilter(filled, filter)
    BY <1>3 DEF Message
  <2>2. /\ filled \in Seq(Points) /\ DOMAIN filled = DOMAIN frame.points
        /\ \A k \in DOMAIN filled : IsPointOf(filled[k], frame)
    BY <1>3, FilledPoints DEF IsPointOf
  <2> HIDE DEF message, filled
  <2>3. /\ kept \in Seq(Points)
        /\ \A i \in DOMAIN kept : \E k \in DOMAIN filled : kept[i] = filled[k]
    <3> DEFINE ks == {k \in DOMAIN filled : Keep(filled[k], filter)}
               places == Ascending(Len(filled), ks)
    <3>1. kept = Subsequence(filled, ks)
      BY DEF KeptPoints
    <3> HIDE DEF kept, ks
    <3>2. kept \in Seq(Points) /\ Passes(kept, places, filled, ks)
      BY <2>2, <3>1, SubsequencePasses
    <3> QED BY <3>2 DEF Passes
  <2> DEFINE enough == Len(kept) >= filter.min_output_points
  <2> enough \in BOOLEAN
    OBVIOUS
  <2>4. \/ message = [accepted |-> TRUE, points |-> filled]
        \/ message = [accepted |-> FALSE, points |-> filled]
        \/ message = [accepted |-> enough, points |-> kept]
    BY <2>1 DEF ApplySelfFilter
  <2> HIDE DEF kept, enough
  <2>5. message.accepted \in BOOLEAN /\ (message.points = filled \/ message.points = kept)
    <3>1. CASE message = [accepted |-> TRUE, points |-> filled]
      BY <3>1
    <3>2. CASE message = [accepted |-> FALSE, points |-> filled]
      BY <3>2
    <3>3. CASE message = [accepted |-> enough, points |-> kept]
      BY <3>3
    <3> QED BY <2>4, <3>1, <3>2, <3>3
  <2> QED BY <2>2, <2>3, <2>5 DEF message
<1> QED BY <1>2, <1>3

(* The entries of the file that have an address, parsed. *)
HasIps == {k \in DOMAIN setup.lidar_configs : HasIp(setup.lidar_configs[k])}

Listed == Subsequence(setup.lidar_configs, HasIps)

AllConfigs == [k \in DOMAIN Listed |-> ParseUserConfig(Listed[k])]

Places == Ascending(Len(setup.lidar_configs), HasIps)

LEMMA ListedFacts ==
  ASSUME setup \in Setups
  PROVE  /\ AllConfigs \in Seq(UserConfigs)
         /\ Len(AllConfigs) = Len(Places)
         /\ Passes(Listed, Places, setup.lidar_configs, HasIps)
         /\ \A k \in DOMAIN AllConfigs :
              AllConfigs[k] = ParseUserConfig(setup.lidar_configs[Places[k]])
<1> DEFINE configs == setup.lidar_configs
           entries == {configs[k] : k \in DOMAIN configs}
<1>1. configs \in Seq(entries) /\ \A config \in entries : IsEntry(config)
  BY SetupFacts DEF IsSetup
<1>2. /\ Listed \in Seq(entries)
      /\ Passes(Listed, Places, configs, HasIps)
  <2> HIDE DEF entries, configs
  <2> QED BY <1>1, SubsequencePasses DEF Listed, Places, configs
<1> HIDE DEF entries
<1>3. \A k \in DOMAIN Listed : /\ Listed[k] = configs[Places[k]]
                               /\ Listed[k] \in entries /\ HasIp(Listed[k])
  <2>1. \A k \in DOMAIN Listed : /\ Places[k] \in HasIps
                                 /\ Listed[k] = configs[Places[k]]
    BY <1>2 DEF Passes
  <2>2. \A k \in DOMAIN Listed : Listed[k] \in entries
    BY <1>2, SeqElements
  <2> QED BY <2>1, <2>2 DEF HasIps
<1>4. \A k \in DOMAIN Listed : ParseUserConfig(Listed[k]) \in UserConfigs
  BY <1>1, <1>3, ParsedType
<1>5. Len(Places) \in Nat /\ DOMAIN Listed = 1 .. Len(Places)
  BY <1>2 DEF Passes
<1>6. AllConfigs \in Seq(UserConfigs) /\ Len(AllConfigs) = Len(Places)
      /\ DOMAIN AllConfigs = DOMAIN Listed
  BY <1>4, <1>5 DEF AllConfigs
<1>7. \A k \in DOMAIN AllConfigs : AllConfigs[k] = ParseUserConfig(configs[Places[k]])
  BY <1>3, <1>6 DEF AllConfigs
<1> QED BY <1>2, <1>6, <1>7

-----------------------------------------------------------------------------
TypeInv == TypeOK /\ setup \in Setups

LEMMA InitType == Init => TypeInv
<1> SUFFICES ASSUME Init PROVE TypeInv
  OBVIOUS
<1>1. setup \in Setups /\ packets \in Nat
  BY SetupFacts DEF Init
<1>2. map_index \in [Handles -> Indices \cup {None}]
  BY DEF Init
<1>3. devices \in [Indices -> LidarDevices]
  <2>1. NoDevice \in LidarDevices
    BY DEF NoDevice, LidarDevices
  <2> QED BY <2>1 DEF Init
<1>4. /\ extrinsics \in [Handles -> ExtrinsicParams \cup {None}]
      /\ handlers \in [Handles -> LidarPubHandlers \cup {None}]
      /\ topics \in [Indices \cup {None} -> TopicNames \cup {None}]
  BY DEF Init
<1>5. /\ phase \in {"load", "parse", "fill", "run"}
      /\ publish_freq \in 1 .. 200 /\ filter = None
      /\ user_configs \in Seq(UserConfigs) /\ outcomes = {}
  BY DEF Init
<1>6. rates \in [interval : Nat, tolerance : Int, ms : Nat]
  BY SMT DEF Init
<1> QED BY <1>1, <1>2, <1>3, <1>4, <1>5, <1>6 DEF TypeInv, TypeOK

LEMMA FillType ==
  ASSUME TypeInv, FillDevice
  PROVE  TypeInv'
<1> DEFINE config == Head(user_configs)
           index == GetFreeIndex(config.handle)
<1>1. config \in UserConfigs /\ Tail(user_configs) \in Seq(UserConfigs)
  BY DEF TypeInv, TypeOK, FillDevice
<1>2. config.handle \in Handles /\ LidarParam(config) \in ExtrinsicParams
  BY <1>1, ParamType DEF UserConfigs
<1>3. index \in Indices
  BY <1>2, FreeIndex DEF FillDevice, TypeInv, TypeOK
<1>4. /\ map_index' = [map_index EXCEPT ![config.handle] = index]
      /\ devices' = [devices EXCEPT ![index].handle = config.handle]
      /\ extrinsics' = [extrinsics EXCEPT ![config.handle] = LidarParam(config)]
      /\ user_configs' = Tail(user_configs)
      /\ UNCHANGED <<setup, phase, publish_freq, filter, rates, threads>>
  BY DEF FillDevice
<1> HIDE DEF config, index
<1>5. map_index' \in [Handles -> Indices \cup {None}]
  BY <1>2, <1>3, <1>4 DEF TypeInv, TypeOK
<1>6. devices' \in [Indices -> LidarDevices]
  <2>1. devices[index] \in LidarDevices /\ devices \in [Indices -> LidarDevices]
    BY <1>3 DEF TypeInv, TypeOK
  <2>2. [devices[index] EXCEPT !.handle = config.handle] \in LidarDevices
    BY <1>2, <2>1 DEF LidarDevices
  <2> QED BY <1>3, <1>4, <2>1, <2>2
<1>7. extrinsics' \in [Handles -> ExtrinsicParams \cup {None}]
  BY <1>2, <1>4 DEF TypeInv, TypeOK
<1> QED BY <1>1, <1>4, <1>5, <1>6, <1>7 DEF TypeInv, TypeOK, threads

LEMMA RawDataType ==
  ASSUME TypeInv, NEW h \in Handles, NEW kind \in setup.kinds, NEW raw \in setup.clouds,
         NEW stamp \in setup.stamps, RawDataProcess(h, kind, raw, stamp)
  PROVE  TypeInv'
<1> DEFINE found == IF handlers[h] = None THEN NewHandler ELSE handlers[h]
           handler == IF extrinsics[h] = None THEN found
                      ELSE SetLidarsExtParam(found, extrinsics[h])
           new == [handler EXCEPT !.cloud =
                     handler.cloud \o PointCloudProcess(h, kind, raw, stamp, handler)]
<1>1. kind \in Kinds /\ raw \in Seq(Vectors) /\ stamp \in Nat
  BY SetupFacts DEF TypeInv
<1>2. found \in LidarPubHandlers
  BY NewHandlerType DEF TypeInv, TypeOK
<1>3. handler \in LidarPubHandlers
  <2> HIDE DEF found
  <2> QED BY <1>2, HandlerType DEF TypeInv, TypeOK
<1>4. handlers' = [handlers EXCEPT ![h] = new]
  BY DEF RawDataProcess
<1>5. packets' \in Nat
  BY DEF RawDataProcess, TypeInv, TypeOK
<1> HIDE DEF handler
<1>6. new \in LidarPubHandlers
  <2>1. PointCloudProcess(h, kind, raw, stamp, handler) \in Seq(Points)
    BY <1>1, <1>3, PacketType
  <2>2. handler.cloud \in Seq(Points)
    BY <1>3 DEF LidarPubHandlers
  <2>3. handler.cloud \o PointCloudProcess(h, kind, raw, stamp, handler) \in Seq(Points)
    BY <2>1, <2>2
  <2> QED BY <1>3, <2>3 DEF LidarPubHandlers
<1> HIDE DEF new
<1>7. handlers' \in [Handles -> LidarPubHandlers \cup {None}]
  BY <1>4, <1>6 DEF TypeInv, TypeOK
<1>8. UNCHANGED <<mainVars, map_index, devices, topics, outcomes>>
  BY DEF RawDataProcess
<1> QED BY <1>5, <1>7, <1>8 DEF TypeInv, TypeOK, mainVars

LEMMA PublishType ==
  ASSUME TypeInv, NEW h \in Handles, PublishPointCloud(h)
  PROVE  TypeInv'
<1> DEFINE cloud == handlers[h].cloud
<1>1. handlers[h] \in LidarPubHandlers
  BY DEF TypeInv, TypeOK, PublishPointCloud
<1>2. Frame(cloud) \in Frames
  BY <1>1, FrameType DEF PublishPointCloud, LidarPubHandlers
<1>3. devices' \in [Indices -> LidarDevices]
  BY <1>2, StoredType DEF PublishPointCloud, TypeInv, TypeOK
<1>4. handlers' \in [Handles -> LidarPubHandlers \cup {None}]
  <2>1. [handlers[h] EXCEPT !.cloud = <<>>] \in LidarPubHandlers
    <3> DEFINE empty == <<>>
    <3>1. empty \in Seq(Points)
      OBVIOUS
    <3> HIDE DEF empty
    <3>2. [handlers[h] EXCEPT !.cloud = empty] \in LidarPubHandlers
      BY <1>1, <3>1 DEF LidarPubHandlers
    <3> QED BY <3>2 DEF empty
  <2> QED BY <2>1 DEF PublishPointCloud, TypeInv, TypeOK
<1>5. UNCHANGED <<mainVars, map_index, topics, packets, outcomes>>
  BY DEF PublishPointCloud
<1> QED BY <1>3, <1>4, <1>5 DEF TypeInv, TypeOK, mainVars

LEMMA CurrentPublisher ==
  ASSUME TypeInv, NEW i \in Indices
  PROVE  /\ PublisherOf(i) \in Indices \cup {None}
         /\ GetCurrentPublisher(i) \in [Indices \cup {None} -> TopicNames \cup {None}]
<1>1. PublisherOf(i) \in Indices \cup {None}
  BY DEF PublisherOf
<1>2. devices[i].handle \in Handles \cup {0}
  BY DEF TypeInv, TypeOK, LidarDevices
<1>3. <<"livox/lidar_", devices[i].handle>> \in TopicNames /\ <<"livox/lidar">> \in TopicNames
  BY <1>2 DEF TopicNames
<1> QED BY <1>1, <1>3 DEF GetCurrentPublisher, TypeInv, TypeOK

(* What Distribute does, with its frame and its message. *)
LEMMA Distributed ==
  ASSUME TypeInv, filter = LoadSelfFilterConfig(setup.filter), NEW i \in Indices, Distribute(i)
  PROVE  LET frame == Head(devices[i].queue)
             message == Message(frame)
             new == [frame |-> frame, published |-> message.accepted, points |-> message.points,
                     topic |-> IF message.accepted THEN topics'[PublisherOf(i)] ELSE None]
         IN /\ devices[i].queue \in Seq(Frames) /\ devices[i].queue # <<>>
            /\ frame \in Frames
            /\ message.accepted \in BOOLEAN /\ message.points \in Seq(Points)
            /\ topics' = IF message.accepted THEN GetCurrentPublisher(i) ELSE topics
            /\ outcomes' = outcomes \cup {new}
            /\ devices' = [devices EXCEPT ![i].queue = Tail(devices[i].queue)]
            /\ UNCHANGED <<mainVars, map_index, handlers, packets>>
<1> DEFINE frame == Head(devices[i].queue)
           message == Message(frame)
<1>1. devices[i].queue \in Seq(Frames) /\ devices[i].queue # <<>>
  BY DEF Distribute, TypeInv, TypeOK, LidarDevices
<1>2. frame \in Frames
  BY <1>1
<1>3. message.accepted \in BOOLEAN /\ message.points \in Seq(Points)
  <2> HIDE DEF frame
  <2> QED BY <1>2, MessagePoints DEF TypeInv
<1>4. devices' = [devices EXCEPT ![i].queue = Tail(devices[i].queue)]
  BY DEF Distribute
<1> QED BY <1>1, <1>2, <1>3, <1>4 DEF Distribute

LEMMA DistributeType ==
  ASSUME TypeInv, filter = LoadSelfFilterConfig(setup.filter), NEW i \in Indices, Distribute(i)
  PROVE  TypeInv'
<1> DEFINE frame == Head(devices[i].queue)
           message == Message(frame)
           new == [frame |-> frame, published |-> message.accepted, points |-> message.points,
                   topic |-> IF message.accepted THEN topics'[PublisherOf(i)] ELSE None]
<1>1. /\ devices[i].queue \in Seq(Frames) /\ devices[i].queue # <<>>
      /\ frame \in Frames
      /\ message.accepted \in BOOLEAN /\ message.points \in Seq(Points)
      /\ topics' = IF message.accepted THEN GetCurrentPublisher(i) ELSE topics
      /\ outcomes' = outcomes \cup {new}
      /\ devices' = [devices EXCEPT ![i].queue = Tail(devices[i].queue)]
      /\ UNCHANGED <<mainVars, map_index, handlers, packets>>
  BY Distributed
<1> HIDE DEF message, frame
<1>2. topics' \in [Indices \cup {None} -> TopicNames \cup {None}]
  BY <1>1, CurrentPublisher DEF TypeInv, TypeOK
<1>3. PublisherOf(i) \in Indices \cup {None}
  BY CurrentPublisher
<1>4. devices' \in [Indices -> LidarDevices]
  <2>1. devices[i] \in LidarDevices /\ devices \in [Indices -> LidarDevices]
    BY DEF TypeInv, TypeOK
  <2>2. Tail(devices[i].queue) \in Seq(Frames)
    BY <1>1
  <2>3. [devices[i] EXCEPT !.queue = Tail(devices[i].queue)] \in LidarDevices
    BY <2>1, <2>2 DEF LidarDevices
  <2> QED BY <1>1, <2>1, <2>3
<1>5. /\ new.frame \in Frames /\ new.points \in Seq(Points)
      /\ new.published \in BOOLEAN /\ new.topic \in TopicNames \cup {None}
  BY <1>1, <1>2, <1>3
<1> HIDE DEF new
<1>6. \A o \in outcomes' : /\ o.frame \in Frames /\ o.points \in Seq(Points)
                           /\ o.published \in BOOLEAN /\ o.topic \in TopicNames \cup {None}
  BY <1>1, <1>5 DEF TypeInv, TypeOK
<1> QED BY <1>1, <1>2, <1>4, <1>6 DEF TypeInv, TypeOK, mainVars

(* From the second phase on, the filter is what was loaded. *)
Loaded == phase # "load" => filter = LoadSelfFilterConfig(setup.filter)

(* A device has frames only once the threads run. *)
Idle ==
  phase # "run" =>
    /\ \A h \in Handles : handlers[h] = None
    /\ \A i \in Indices : ~devices[i].sampling /\ devices[i].queue = <<>> /\ devices[i].size = 0
    /\ \A i \in Indices \cup {None} : topics[i] = None
    /\ outcomes = {}

LEMMA LoadedFreq ==
  ASSUME TypeInv, LoadParameters
  PROVE  publish_freq' \in 1 .. 200
<1> DEFINE f == setup.publish_freq
<1>1. f \in Int
  BY SetupFacts DEF TypeInv
<1>2. publish_freq' = CASE f > 200 -> 200 [] f < 1 -> 1 [] OTHER -> f
  BY DEF LoadParameters
<1> HIDE DEF f
<1>3. CASE f > 200
  <2>1. ~(f < 1)
    BY <1>1, <1>3
  <2>2. publish_freq' = 200
    BY <1>2, <1>3, <2>1, Zenon
  <2> QED BY <2>2
<1>4. CASE f < 1
  <2>1. ~(f > 200)
    BY <1>1, <1>4
  <2>2. publish_freq' = 1
    BY <1>2, <1>4, <2>1, Zenon
  <2> QED BY <2>2
<1>5. CASE ~(f > 200) /\ ~(f < 1)
  <2>1. publish_freq' = f
    BY <1>2, <1>5, Zenon
  <2> QED BY <1>1, <1>5, <2>1
<1> QED BY <1>3, <1>4, <1>5

LEMMA StartType ==
  ASSUME TypeInv,
         LoadParameters \/ ParseUserConfigs \/ SkipDevice \/ SetLidarPubHandle
  PROVE  TypeInv'
<1>1. CASE LoadParameters
  <2>1. publish_freq' \in 1 .. 200
    BY <1>1, LoadedFreq
  <2> QED BY <1>1, <2>1 DEF LoadParameters, TypeInv, TypeOK, threads
<1>2. CASE ParseUserConfigs
  <2>1. user_configs' = AllConfigs
    BY <1>2 DEF ParseUserConfigs, AllConfigs, Listed, HasIps
  <2>2. user_configs' \in Seq(UserConfigs)
    BY <2>1, ListedFacts DEF TypeInv
  <2> QED BY <1>2, <2>2 DEF ParseUserConfigs, TypeInv, TypeOK, threads
<1>3. CASE SkipDevice
  <2>1. user_configs' \in Seq(UserConfigs)
    BY <1>3 DEF SkipDevice, TypeInv, TypeOK
  <2> QED BY <1>3, <2>1 DEF SkipDevice, TypeInv, TypeOK, threads
<1>4. CASE SetLidarPubHandle
  <2>1. rates' \in [interval : Nat, tolerance : Int, ms : Nat]
    BY <1>4, RateValues DEF SetLidarPubHandle, TypeInv, TypeOK
  <2> QED BY <1>4, <2>1 DEF SetLidarPubHandle, TypeInv, TypeOK, threads
<1> QED BY <1>1, <1>2, <1>3, <1>4

LEMMA CommandType ==
  ASSUME TypeInv, NEW h \in Handles, LidarInfoChange(h) \/ SetSampling(h)
  PROVE  TypeInv'
<1>1. CASE LidarInfoChange(h)
  <2>1. GetFreeIndex(h) \in Indices
    BY <1>1, FreeIndex DEF LidarInfoChange, TypeInv, TypeOK
  <2>2. map_index' \in [Handles -> Indices \cup {None}]
    BY <1>1, <2>1 DEF LidarInfoChange, TypeInv, TypeOK
  <2> QED BY <1>1, <2>2 DEF LidarInfoChange, TypeInv, TypeOK, mainVars, threads
<1>2. CASE SetSampling(h)
  <2> DEFINE i == map_index[h]
  <2>1. i \in Indices
    BY <1>2 DEF SetSampling, TypeInv, TypeOK
  <2>2. devices' = [devices EXCEPT ![i].sampling = TRUE]
    BY <1>2 DEF SetSampling
  <2> HIDE DEF i
  <2>3. devices' \in [Indices -> LidarDevices]
    <3>1. devices[i] \in LidarDevices /\ devices \in [Indices -> LidarDevices]
      BY <2>1 DEF TypeInv, TypeOK
    <3>2. [devices[i] EXCEPT !.sampling = TRUE] \in LidarDevices
      BY <3>1 DEF LidarDevices
    <3> QED BY <2>1, <2>2, <3>1, <3>2
  <2> QED BY <1>2, <2>3 DEF SetSampling, TypeInv, TypeOK, mainVars, threads
<1> QED BY <1>1, <1>2

BaseInv == TypeInv /\ Loaded /\ Idle

LEMMA InitBase == Init => BaseInv
<1> SUFFICES ASSUME Init PROVE BaseInv
  OBVIOUS
<1>1. TypeInv
  BY InitType
<1>2. Loaded
  BY DEF Init, Loaded
<1>3. Idle
  BY DEF Init, Idle, NoDevice
<1> QED BY <1>1, <1>2, <1>3 DEF BaseInv

(* What the threads are doing says that the main thread is ready. *)
LEMMA Running ==
  ASSUME BaseInv
  PROVE  /\ \A i \in Indices :
              Distribute(i) => phase = "run" /\ filter = LoadSelfFilterConfig(setup.filter)
         /\ \A h \in Handles : PublishPointCloud(h) => phase = "run"
BY DEF BaseInv, Loaded, Idle, Distribute, PublishPointCloud

LEMMA BaseStep == BaseInv /\ [Next]_vars => BaseInv'
<1> SUFFICES ASSUME BaseInv, [Next]_vars PROVE BaseInv'
  OBVIOUS
<1> USE DEF BaseInv
<1>1. CASE LoadParameters \/ ParseUserConfigs \/ SkipDevice \/ SetLidarPubHandle
  <2>1. TypeInv'
    BY <1>1, StartType
  <2>2. Loaded'
    BY <1>1 DEF LoadParameters, ParseUserConfigs, SkipDevice, SetLidarPubHandle, Loaded
  <2>3. Idle'
    BY <1>1 DEF LoadParameters, ParseUserConfigs, SkipDevice, SetLidarPubHandle, Idle, threads
  <2> QED BY <2>1, <2>2, <2>3
<1>2. CASE FillDevice
  <2>1. TypeInv'
    BY <1>2, FillType
  <2>2. Loaded'
    BY <1>2 DEF FillDevice, Loaded
  <2>3. Idle'
    <3> DEFINE index == GetFreeIndex(Head(user_configs).handle)
    <3>1. /\ devices' = [devices EXCEPT ![index].handle = Head(user_configs).handle]
          /\ UNCHANGED <<phase, threads>>
      BY <1>2 DEF FillDevice
    <3> HIDE DEF index
    <3>2. \A i \in Indices : /\ devices'[i].sampling = devices[i].sampling
                             /\ devices'[i].queue = devices[i].queue
                             /\ devices'[i].size = devices[i].size
      BY <3>1 DEF TypeInv, TypeOK, LidarDevices
    <3> QED BY <3>1, <3>2 DEF Idle, threads
  <2> QED BY <2>1, <2>2, <2>3
<1>3. ASSUME NEW h \in Handles, LidarInfoChange(h) \/ SetSampling(h) PROVE BaseInv'
  <2>1. TypeInv'
    BY <1>3, CommandType
  <2>2. phase' = phase /\ phase = "run" /\ filter' = filter /\ setup' = setup
    BY <1>3 DEF LidarInfoChange, SetSampling, mainVars
  <2> QED BY <2>1, <2>2 DEF Loaded, Idle
<1>4. ASSUME NEW h \in Handles, NEW kind \in setup.kinds, NEW raw \in setup.clouds,
             NEW stamp \in setup.stamps, RawDataProcess(h, kind, raw, stamp)
      PROVE  BaseInv'
  <2>1. TypeInv'
    BY <1>4, RawDataType
  <2>2. phase' = phase /\ phase = "run" /\ filter' = filter /\ setup' = setup
    BY <1>4 DEF RawDataProcess, mainVars
  <2> QED BY <2>1, <2>2 DEF Loaded, Idle
<1>5. ASSUME NEW h \in Handles, PublishPointCloud(h) PROVE BaseInv'
  <2>1. TypeInv'
    BY <1>5, PublishType
  <2>2. phase' = phase /\ phase = "run" /\ filter' = filter /\ setup' = setup
    BY <1>5, Running DEF PublishPointCloud, mainVars
  <2> QED BY <2>1, <2>2 DEF Loaded, Idle
<1>6. ASSUME NEW i \in Indices, Distribute(i) PROVE BaseInv'
  <2>1. TypeInv'
    BY <1>6, Running, DistributeType
  <2>2. phase' = phase /\ phase = "run" /\ filter' = filter /\ setup' = setup
    BY <1>6, Running DEF Distribute, mainVars
  <2> QED BY <2>1, <2>2 DEF Loaded, Idle
<1>7. CASE UNCHANGED vars
  BY <1>7 DEF vars, TypeInv, TypeOK, Loaded, Idle
<1> QED BY <1>1, <1>2, <1>3, <1>4, <1>5, <1>6, <1>7 DEF Next

(* The types of the whole data path, for any lidars, configuration files, filters and
   packets: the publish frequency is within its limits, every index within lidars_
   and no frame is empty. *)
THEOREM TypeCorrect == Spec => []TypeOK
<1>1. BaseInv => TypeOK
  BY DEF BaseInv, TypeInv
<1> QED BY <1>1, InitBase, BaseStep, PTL DEF Spec

LEMMA BaseCorrect == Spec => []BaseInv
BY InitBase, BaseStep, PTL DEF Spec

-----------------------------------------------------------------------------
(* The devices after each of the actions that change them. *)

LEMMA FilledDevices ==
  ASSUME TypeInv, FillDevice
  PROVE  LET config == Head(user_configs)
             index == GetFreeIndex(config.handle)
         IN /\ config \in UserConfigs /\ config.handle \in Handles /\ index \in Indices
            /\ \A h \in Handles :
                 /\ map_index'[h] = IF h = config.handle THEN index ELSE map_index[h]
                 /\ extrinsics'[h] = IF h = config.handle THEN LidarParam(config)
                                     ELSE extrinsics[h]
            /\ \A i \in Indices :
                 /\ devices'[i].handle = IF i = index THEN config.handle ELSE devices[i].handle
                 /\ devices'[i].sampling = devices[i].sampling
                 /\ devices'[i].queue = devices[i].queue
                 /\ devices'[i].size = devices[i].size
            /\ user_configs' = Tail(user_configs) /\ user_configs # <<>>
            /\ phase = "fill" /\ UNCHANGED <<setup, phase, publish_freq, filter, rates, threads>>
<1> DEFINE config == Head(user_configs)
           index == GetFreeIndex(config.handle)
<1>1. config \in UserConfigs
  BY DEF TypeInv, TypeOK, FillDevice
<1>2. config.handle \in Handles
  BY <1>1 DEF UserConfigs
<1>3. index \in Indices
  BY <1>2, FreeIndex DEF FillDevice, TypeInv, TypeOK
<1>4. /\ map_index' = [map_index EXCEPT ![config.handle] = index]
      /\ devices' = [devices EXCEPT ![index].handle = config.handle]
      /\ extrinsics' = [extrinsics EXCEPT ![config.handle] = LidarParam(config)]
      /\ user_configs' = Tail(user_configs) /\ user_configs # <<>>
      /\ phase = "fill" /\ UNCHANGED <<setup, phase, publish_freq, filter, rates, threads>>
  BY DEF FillDevice
<1> HIDE DEF config, index
<1>5. \A h \in Handles :
        /\ map_index'[h] = IF h = config.handle THEN index ELSE map_index[h]
        /\ extrinsics'[h] = IF h = config.handle THEN LidarParam(config) ELSE extrinsics[h]
  BY <1>2, <1>4 DEF TypeInv, TypeOK
<1>6. \A i \in Indices :
        /\ devices'[i].handle = IF i = index THEN config.handle ELSE devices[i].handle
        /\ devices'[i].sampling = devices[i].sampling
        /\ devices'[i].queue = devices[i].queue
        /\ devices'[i].size = devices[i].size
  BY <1>3, <1>4 DEF TypeInv, TypeOK, LidarDevices
<1> QED BY <1>1, <1>2, <1>3, <1>4, <1>5, <1>6 DEF config, index

LEMMA SampledDevices ==
  ASSUME TypeInv, NEW h \in Handles, SetSampling(h)
  PROVE  /\ \A i \in Indices : /\ devices'[i].handle = devices[i].handle
                               /\ devices'[i].queue = devices[i].queue
                               /\ devices'[i].size = devices[i].size
         /\ phase = "run" /\ UNCHANGED <<mainVars, map_index, threads>>
<1> DEFINE i == map_index[h]
<1>1. i \in Indices
  BY DEF SetSampling, TypeInv, TypeOK
<1>2. /\ devices' = [devices EXCEPT ![i].sampling = TRUE]
      /\ phase = "run" /\ UNCHANGED <<mainVars, map_index, threads>>
  BY DEF SetSampling
<1> HIDE DEF i
<1> QED BY <1>1, <1>2 DEF TypeInv, TypeOK, LidarDevices

QueueSizeNow == RoundupPowerOf2(CalculatePacketQueueSize(publish_freq))

LEMMA StoredDevices ==
  ASSUME BaseInv, NEW h \in Handles, PublishPointCloud(h)
  PROVE  /\ handlers[h] \in LidarPubHandlers /\ handlers[h].cloud \in Seq(Points) \ {<<>>}
         /\ Frame(handlers[h].cloud) \in Frames
         /\ \A i \in Indices :
              /\ devices'[i].handle = devices[i].handle
              /\ devices'[i].sampling = devices[i].sampling
              /\ devices'[i].size = IF i = map_index[h] /\ devices[i].size = 0 THEN QueueSizeNow
                                    ELSE devices[i].size
              /\ \/ devices'[i].queue = devices[i].queue
                 \/ /\ i = map_index[h]
                    /\ devices'[i].queue = Append(devices[i].queue, Frame(handlers[h].cloud))
         /\ handlers' = [handlers EXCEPT ![h] = [handlers[h] EXCEPT !.cloud = <<>>]]
         /\ phase = "run" /\ UNCHANGED <<mainVars, map_index, topics, packets, outcomes>>
<1> DEFINE frame == Frame(handlers[h].cloud)
<1>1. handlers[h] \in LidarPubHandlers /\ handlers[h].cloud \in Seq(Points) \ {<<>>}
  BY DEF BaseInv, TypeInv, TypeOK, PublishPointCloud, LidarPubHandlers
<1>2. frame \in Frames
  BY <1>1, FrameType
<1>3. phase = "run"
  BY Running
<1>4. /\ devices' = StoragePointData(h, frame)
      /\ handlers' = [handlers EXCEPT ![h] = [handlers[h] EXCEPT !.cloud = <<>>]]
      /\ UNCHANGED <<mainVars, map_index, topics, packets, outcomes>>
  BY DEF PublishPointCloud
<1> HIDE DEF frame
<1>5. devices \in [Indices -> LidarDevices] /\ map_index[h] \in Indices \cup {None}
  BY DEF BaseInv, TypeInv, TypeOK
<1>6. ASSUME NEW i \in Indices
      PROVE  /\ devices'[i].handle = devices[i].handle
             /\ devices'[i].sampling = devices[i].sampling
             /\ devices'[i].size = IF i = map_index[h] /\ devices[i].size = 0 THEN QueueSizeNow
                                   ELSE devices[i].size
             /\ \/ devices'[i].queue = devices[i].queue
                \/ i = map_index[h] /\ devices'[i].queue = Append(devices[i].queue, frame)
  <2>1. CASE map_index[h] = None
    <3>1. devices' = devices /\ i # map_index[h]
      BY <1>4, <2>1, DataPathAssumption DEF StoragePointData
    <3> QED BY <3>1
  <2>2. CASE map_index[h] # None
    <3> DEFINE j == map_index[h]
               size == IF devices[j].size = 0 THEN QueueSizeNow ELSE devices[j].size
               queue == IF Len(devices[j].queue) < size THEN Append(devices[j].queue, frame)
                        ELSE devices[j].queue
    <3>1. devices' = [devices EXCEPT ![j].queue = queue, ![j].size = size]
      BY <1>4, <2>2 DEF StoragePointData, QueueSizeNow
    <3>2. j \in Indices
      BY <1>5, <2>2
    <3>3. /\ size = IF devices[j].size = 0 THEN QueueSizeNow ELSE devices[j].size
          /\ queue = devices[j].queue \/ queue = Append(devices[j].queue, frame)
      OBVIOUS
    <3> HIDE DEF j, size, queue
    <3>4. /\ devices'[i].handle = devices[i].handle
          /\ devices'[i].sampling = devices[i].sampling
          /\ devices'[i].size = IF i = j THEN size ELSE devices[i].size
          /\ devices'[i].queue = IF i = j THEN queue ELSE devices[i].queue
      BY <1>5, <3>1, <3>2 DEF LidarDevices
    <3> QED BY <3>3, <3>4 DEF j
  <2> QED BY <2>1, <2>2
<1> QED BY <1>1, <1>2, <1>3, <1>4, <1>6 DEF frame

LEMMA PolledDevices ==
  ASSUME BaseInv, NEW i \in Indices, Distribute(i)
  PROVE  /\ \A j \in Indices : /\ devices'[j].handle = devices[j].handle
                               /\ devices'[j].sampling = devices[j].sampling
                               /\ devices'[j].size = devices[j].size
                               /\ devices'[j].queue = IF j = i THEN Tail(devices[j].queue)
                                                      ELSE devices[j].queue
         /\ phase = "run" /\ UNCHANGED <<mainVars, map_index, handlers, packets>>
<1>1. /\ devices' = [devices EXCEPT ![i].queue = Tail(devices[i].queue)]
      /\ UNCHANGED <<mainVars, map_index, handlers, packets>>
  BY DEF Distribute, BaseInv, TypeInv, TypeOK, LidarDevices
<1>2. phase = "run"
  BY Running
<1> QED BY <1>1, <1>2 DEF BaseInv, TypeInv, TypeOK, LidarDevices

-----------------------------------------------------------------------------
(* Rates and sizes. *)

RatesSet ==
  /\ phase = "run" => rates = SetPointCloudConfig(publish_freq)
  /\ \A i \in Indices : devices[i].size # 0 => devices[i].size = QueueSizeNow

LEMMA RatesStep == BaseInv /\ RatesSet /\ [Next]_vars => RatesSet'
<1> SUFFICES ASSUME BaseInv, RatesSet, [Next]_vars PROVE RatesSet'
  OBVIOUS
<1>1. CASE phase # "run" /\ ~FillDevice
  <2>1. \A i \in Indices : devices[i].size = 0
    BY <1>1 DEF BaseInv, Idle
  <2>2. ASSUME SetLidarPubHandle PROVE RatesSet'
    BY <2>1, <2>2 DEF SetLidarPubHandle, RatesSet, threads
  <2>3. ASSUME LoadParameters \/ ParseUserConfigs \/ SkipDevice PROVE RatesSet'
    BY <1>1, <2>1, <2>3 DEF LoadParameters, ParseUserConfigs, SkipDevice, RatesSet, threads
  <2>4. ASSUME UNCHANGED vars PROVE RatesSet'
    BY <2>4 DEF vars, RatesSet, QueueSizeNow
  <2>5. \A h \in Handles : ~LidarInfoChange(h) /\ ~SetSampling(h) /\ ~PublishPointCloud(h)
    BY <1>1, Running DEF LidarInfoChange, SetSampling
  <2>6. \A h \in Handles, kind \in setup.kinds, raw \in setup.clouds, stamp \in setup.stamps :
          ~RawDataProcess(h, kind, raw, stamp)
    BY <1>1 DEF RawDataProcess
  <2>7. \A i \in Indices : ~Distribute(i)
    BY <1>1, Running
  <2> QED BY <1>1, <2>2, <2>3, <2>4, <2>5, <2>6, <2>7 DEF Next
<1>2. CASE FillDevice
  <2>1. /\ \A i \in Indices : devices'[i].size = devices[i].size
        /\ phase' = "fill"
    BY <1>2, FilledDevices DEF BaseInv
  <2>2. \A i \in Indices : devices[i].size = 0
    BY <1>2 DEF FillDevice, BaseInv, Idle
  <2> QED BY <2>1, <2>2 DEF RatesSet
<1>3. CASE phase = "run"
  <2>1. ASSUME UNCHANGED mainVars, \A i \in Indices : \/ devices'[i].size = devices[i].size
                                                      \/ devices'[i].size = QueueSizeNow
        PROVE  RatesSet'
    BY <2>1 DEF mainVars, RatesSet, QueueSizeNow
  <2>2. ASSUME NEW h \in Handles, LidarInfoChange(h) PROVE RatesSet'
    BY <2>1, <2>2 DEF LidarInfoChange
  <2>3. ASSUME NEW h \in Handles, SetSampling(h) PROVE RatesSet'
    BY <2>1, <2>3, SampledDevices DEF BaseInv
  <2>4. ASSUME NEW h \in Handles, NEW kind \in setup.kinds, NEW raw \in setup.clouds,
               NEW stamp \in setup.stamps, RawDataProcess(h, kind, raw, stamp)
        PROVE  RatesSet'
    BY <2>1, <2>4 DEF RawDataProcess
  <2>5. ASSUME NEW h \in Handles, PublishPointCloud(h) PROVE RatesSet'
    BY <2>1, <2>5, StoredDevices
  <2>6. ASSUME NEW i \in Indices, Distribute(i) PROVE RatesSet'
    BY <2>1, <2>6, PolledDevices
  <2>7. ASSUME UNCHANGED vars PROVE RatesSet'
    BY <2>7 DEF vars, RatesSet, QueueSizeNow
  <2>8. /\ ~LoadParameters /\ ~ParseUserConfigs /\ ~FillDevice /\ ~SkipDevice
        /\ ~SetLidarPubHandle
    BY <1>3 DEF LoadParameters, ParseUserConfigs, FillDevice, SkipDevice, SetLidarPubHandle
  <2> QED BY <2>2, <2>3, <2>4, <2>5, <2>6, <2>7, <2>8 DEF Next
<1> QED BY <1>1, <1>2, <1>3

(* The intervals and tolerances of the frame clock are sound and the rings hold a
   second of frames, for every publish frequency that can be asked for. *)
THEOREM RatesAreSound == Spec => []RatesSound
<1>1. Init => RatesSet
  BY DEF Init, RatesSet, NoDevice
<1>2. BaseInv /\ RatesSet => RatesSound
  <2> SUFFICES ASSUME BaseInv, RatesSet, phase = "run" PROVE RatesSound
    BY DEF RatesSound
  <2>1. publish_freq \in 1 .. 200
    BY DEF BaseInv, TypeInv, TypeOK
  <2>2. rates.ms > 0 /\ 0 < rates.tolerance /\ rates.tolerance < rates.interval
    BY <2>1, RateValues DEF RatesSet
  <2>3. QueueSizeNow \in Nat /\ (\E k \in 0 .. 30 : QueueSizeNow = 2^k)
        /\ 2 * QueueSizeNow >= publish_freq
    BY <2>1, QueueSize DEF QueueSizeNow
  <2>4. \A i \in Indices : devices[i].size # 0 => devices[i].size = QueueSizeNow
    BY DEF RatesSet
  <2> QED BY <2>2, <2>3, <2>4 DEF RatesSound
<1>3. Spec => []BaseInv
  BY BaseCorrect
<1> QED BY <1>1, <1>2, <1>3, RatesStep, PTL DEF Spec

-----------------------------------------------------------------------------
(* The entries of the file and the table of devices. *)

Started == phase \in {"fill", "run"}

(* The entries of the file that InitLivoxLidar has been through, and those of them
   that are about h. *)
Done == Len(AllConfigs) - Len(user_configs)
DoneFor(h) == {k \in 1 .. Done : AllConfigs[k].handle = h}

Remaining ==
  /\ Started => /\ Len(user_configs) <= Len(AllConfigs)
                /\ \A k \in DOMAIN user_configs : user_configs[k] = AllConfigs[Done + k]
  /\ phase = "run" => user_configs = <<>>

(* A device of the file keeps its handle, and no two lidars share a device. *)
Registered ==
  /\ \A g, h \in Handles : map_index[g] = map_index[h] /\ map_index[g] # None => g = h
  /\ \A i \in Indices : devices[i].handle # 0 => map_index[devices[i].handle] = i
  /\ \A h \in Handles :
       extrinsics[h] # None => map_index[h] # None /\ devices[map_index[h]].handle = h
  /\ phase # "run" => \A h \in Handles : map_index[h] # None => extrinsics[h] # None
  /\ ~Started => \A h \in Handles : map_index[h] = None

(* Who has extrinsics has those of the last entry so far; who was passed over found
   a table that entries before had filled. *)
LastEntry(h) ==
  \E k \in DoneFor(h) :
    extrinsics[h] = LidarParam(AllConfigs[k]) /\ \A j \in DoneFor(h) : j <= k

Crowded(h) ==
  \A k \in DoneFor(h), i \in Indices :
    \E g \in Handles : /\ g # h /\ map_index[g] = i /\ extrinsics[g] # None
                       /\ \E j \in DoneFor(g) : j < k

Filled ==
  Started => \A h \in Handles : IF extrinsics[h] # None THEN LastEntry(h) ELSE Crowded(h)

StartInv == Remaining /\ Registered /\ Filled

(* What is known of a point of the lidar h on its way. *)
Compensated(p) ==
  /\ Placed(p.from.handle)
  /\ (p.from.kind = Low) = (Field(EntryOf(p.from.handle), "pcl_data_type", -1) = Low)
  => Near(p.at, Mounted(p.from))

Known(p, h) == p.from.handle = h /\ p.time = p.from.stamp /\ Compensated(p)

KnownFrame(frame, h) ==
  /\ frame.base_time = frame.points[1].time
  /\ \A k \in DOMAIN frame.points : Known(frame.points[k], h)

HandlersKnown ==
  \A h \in Handles : handlers[h] # None =>
    /\ handlers[h].is_set = (extrinsics[h] # None)
    /\ extrinsics[h] # None => /\ handlers[h].rotation = ExtrinsicRotation(extrinsics[h].rpy)
                               /\ handlers[h].trans = extrinsics[h].xyz
    /\ \A k \in DOMAIN handlers[h].cloud : Known(handlers[h].cloud[k], h)

QueuesKnown ==
  \A i \in Indices : \A n \in DOMAIN devices[i].queue :
    \E h \in Handles : map_index[h] = i /\ KnownFrame(devices[i].queue[n], h)

TopicsNamed ==
  setup.multi_topic =>
    \A i \in Indices : topics[i] # None => topics[i] = <<"livox/lidar_", devices[i].handle>>

(* What is known of a distributed frame. *)
KnownOutcome(o) ==
  \E h \in Handles :
    /\ map_index[h] # None /\ KnownFrame(o.frame, h)
    /\ \A k \in DOMAIN o.points : IsPointOf(o.points[k], o.frame)
    /\ o.published /\ setup.multi_topic =>
         o.topic = <<"livox/lidar_", devices[map_index[h]].handle>>

FlowInv ==
  /\ HandlersKnown /\ QueuesKnown /\ TopicsNamed
  /\ \A o \in outcomes : KnownOutcome(o)

PlacedFilled ==
  phase = "run" =>
    \A h \in Handles : Placed(h) =>
      extrinsics[h] # None /\ extrinsics[h] = LidarParam(ParseUserConfig(EntryOf(h)))

LEMMA SameConfigs == setup' = setup => AllConfigs' = AllConfigs /\ Places' = Places
BY DEF AllConfigs, Listed, HasIps, Places

LEMMA SameDone ==
  ASSUME UNCHANGED <<setup, user_configs>>
  PROVE  Done' = Done /\ \A h \in Handles : DoneFor(h)' = DoneFor(h)
BY SameConfigs DEF Done, DoneFor

LEMMA DoneFacts ==
  ASSUME BaseInv, Remaining, Started
  PROVE  /\ Len(AllConfigs) \in Nat /\ Len(user_configs) \in Nat /\ Done \in 0 .. Len(AllConfigs)
         /\ DOMAIN AllConfigs = 1 .. Len(AllConfigs)
         /\ \A h \in Handles : \A k \in DoneFor(h) : k \in 1 .. Done /\ AllConfigs[k].handle = h
<1>1. AllConfigs \in Seq(UserConfigs) /\ user_configs \in Seq(UserConfigs)
  BY ListedFacts DEF BaseInv, TypeInv, TypeOK
<1>2. /\ Len(AllConfigs) \in Nat /\ Len(user_configs) \in Nat
      /\ DOMAIN AllConfigs = 1 .. Len(AllConfigs)
  BY <1>1, SeqElements
<1>3. Done \in 0 .. Len(AllConfigs)
  BY <1>2 DEF Remaining, Done
<1> QED BY <1>2, <1>3 DEF DoneFor

(* The next entry is taken off the list. *)
LEMMA NextEntry ==
  ASSUME BaseInv, Remaining, phase = "fill", user_configs # <<>>,
         user_configs' = Tail(user_configs), UNCHANGED <<setup, phase>>
  PROVE  /\ Done + 1 \in DOMAIN AllConfigs /\ Head(user_configs) = AllConfigs[Done + 1]
         /\ Done' = Done + 1 /\ Remaining'
         /\ \A h \in Handles :
              DoneFor(h)' = IF h = Head(user_configs).handle THEN DoneFor(h) \cup {Done + 1}
                            ELSE DoneFor(h)
<1>1. Started /\ user_configs \in Seq(UserConfigs)
  BY DEF Started, BaseInv, TypeInv, TypeOK
<1>2. /\ Len(AllConfigs) \in Nat /\ Len(user_configs) \in Nat /\ Done \in 0 .. Len(AllConfigs)
      /\ DOMAIN AllConfigs = 1 .. Len(AllConfigs)
      /\ Done = Len(AllConfigs) - Len(user_configs)
  BY <1>1, DoneFacts DEF Done
<1>3. Len(user_configs) > 0 /\ Len(user_configs') = Len(user_configs) - 1
  BY <1>1
<1>4. AllConfigs' = AllConfigs
  BY SameConfigs
<1>5. Done' = Done + 1 /\ Done + 1 \in DOMAIN AllConfigs
  BY <1>2, <1>3, <1>4 DEF Done
<1>6. Head(user_configs) = AllConfigs[Done + 1]
  <2>1. Head(user_configs) = user_configs[1] /\ 1 \in DOMAIN user_configs
    BY <1>1, <1>3
  <2> QED BY <1>1, <2>1 DEF Remaining
<1>7. Remaining'
  <2>1. ASSUME NEW k \in DOMAIN user_configs'
        PROVE  user_configs'[k] = AllConfigs'[Done' + k]
    <3>1. k + 1 \in DOMAIN user_configs /\ user_configs'[k] = user_configs[k + 1] /\ k \in Nat
      BY <1>1
    <3>2. user_configs[k + 1] = AllConfigs[Done + (k + 1)]
      BY <1>1, <3>1 DEF Remaining
    <3>3. Done + (k + 1) = Done' + k
      BY <1>2, <1>5, <3>1
    <3> QED BY <1>4, <3>1, <3>2, <3>3
  <2>2. Len(user_configs') <= Len(AllConfigs')
    BY <1>2, <1>3, <1>4, <1>5
  <2> QED BY <2>1, <2>2 DEF Remaining
<1>8. ASSUME NEW h \in Handles
      PROVE  DoneFor(h)' = IF h = Head(user_configs).handle THEN DoneFor(h) \cup {Done + 1}
                           ELSE DoneFor(h)
  <2>1. 1 .. Done' = 1 .. Done \cup {Done + 1}
    BY <1>2, <1>5
  <2>2. DoneFor(h)' = {k \in 1 .. Done \cup {Done + 1} : AllConfigs[k].handle = h}
    BY <1>4, <2>1 DEF DoneFor
  <2>3. AllConfigs[Done + 1].handle = Head(user_configs).handle
    BY <1>6
  <2> QED BY <2>2, <2>3 DEF DoneFor
<1> QED BY <1>5, <1>6, <1>7, <1>8

LEMMA FillStart ==
  ASSUME BaseInv, StartInv, FillDevice
  PROVE  StartInv'
<1> DEFINE config == Head(user_configs)
           index == GetFreeIndex(config.handle)
<1>1. /\ config \in UserConfigs /\ config.handle \in Handles /\ index \in Indices
      /\ \A h \in Handles :
           /\ map_index'[h] = IF h = config.handle THEN index ELSE map_index[h]
           /\ extrinsics'[h] = IF h = config.handle THEN LidarParam(config) ELSE extrinsics[h]
      /\ \A i \in Indices :
           devices'[i].handle = IF i = index THEN config.handle ELSE devices[i].handle
      /\ user_configs' = Tail(user_configs) /\ user_configs # <<>>
      /\ phase = "fill" /\ phase' = phase /\ setup' = setup
  BY FilledDevices DEF BaseInv
<1>2. /\ Done + 1 \in DOMAIN AllConfigs /\ config = AllConfigs[Done + 1]
      /\ Done' = Done + 1 /\ Remaining'
      /\ \A h \in Handles : DoneFor(h)' = IF h = config.handle THEN DoneFor(h) \cup {Done + 1}
                                          ELSE DoneFor(h)
  BY <1>1, NextEntry DEF StartInv
<1>3. Started /\ Started' /\ phase' # "run"
  BY <1>1 DEF Started
<1>4. LidarParam(config) # None
  BY <1>1, ParamType
<1>5. /\ map_index[config.handle] # None => index = map_index[config.handle]
      /\ map_index[config.handle] = None => \A h \in Handles : map_index[h] # index
  <2>1. map_index \in [Handles -> Indices \cup {None}]
    BY DEF BaseInv, TypeInv, TypeOK
  <2>2. map_index[config.handle] # None => index = map_index[config.handle]
    BY <1>1, <2>1, FreeIndex
  <2>3. ASSUME map_index[config.handle] = None PROVE \A h \in Handles : map_index[h] # index
    <3>1. index \in FreeIndices
      BY <1>1, <2>1, <2>3, FreeIndex, DataPathAssumption
    <3> HIDE DEF index
    <3> QED BY <3>1 DEF FreeIndices
  <2> QED BY <2>2, <2>3
<1>6. index # None /\ config.handle # 0
  BY <1>1, DataPathAssumption
<1> DEFINE new == config.handle
<1>7. AllConfigs' = AllConfigs
  BY <1>1, SameConfigs
<1> HIDE DEF config, index
<1>8. Registered'
  <2>1. ASSUME NEW g \in Handles, NEW h \in Handles,
               map_index'[g] = map_index'[h], map_index'[g] # None
        PROVE  g = h
    BY <1>1, <1>5, <2>1 DEF StartInv, Registered
  <2>2. ASSUME NEW i \in Indices, devices'[i].handle # 0
        PROVE  map_index'[devices'[i].handle] = i
    <3>1. CASE i = index
      BY <1>1, <3>1
    <3>2. CASE i # index
      <4> PICK h \in Handles : h = devices[i].handle
        BY <1>1, <2>2, <3>2 DEF BaseInv, TypeInv, TypeOK, LidarDevices
      <4>1. devices'[i].handle = h /\ h # 0
        BY <1>1, <2>2, <3>2
      <4>2. map_index[h] = i
        BY <4>1 DEF StartInv, Registered
      <4>3. i # None
        BY DataPathAssumption
      <4> QED BY <1>1, <1>5, <3>2, <4>1, <4>2, <4>3
    <3> QED BY <3>1, <3>2
  <2>3. ASSUME NEW h \in Handles, extrinsics'[h] # None
        PROVE  map_index'[h] # None /\ devices'[map_index'[h]].handle = h
    <3>1. CASE h = config.handle
      BY <1>1, <1>6, <3>1
    <3>2. CASE h # config.handle
      <4>1. map_index[h] # None /\ devices[map_index[h]].handle = h /\ map_index'[h] = map_index[h]
        BY <1>1, <2>3, <3>2 DEF StartInv, Registered
      <4>2. map_index[h] \in Indices
        BY <4>1 DEF BaseInv, TypeInv, TypeOK
      <4>3. map_index[h] # index
        BY <1>1, <1>5, <3>2, <4>1 DEF StartInv, Registered
      <4> QED BY <1>1, <4>1, <4>2, <4>3
    <3> QED BY <3>1, <3>2
  <2>4. ASSUME NEW h \in Handles, map_index'[h] # None PROVE extrinsics'[h] # None
    BY <1>1, <1>4, <2>4 DEF StartInv, Registered
  <2> QED BY <1>3, <2>1, <2>2, <2>3, <2>4 DEF Registered
<1>9. Filled'
  <2>1. ASSUME NEW h \in Handles, extrinsics'[h] # None PROVE LastEntry(h)'
    <3>1. CASE h = config.handle
      <4>1. /\ Done + 1 \in DoneFor(h)' /\ extrinsics'[h] = LidarParam(AllConfigs[Done + 1])
            /\ \A j \in DoneFor(h)' : j <= Done + 1
        <5>1. Done \in Nat /\ \A j \in DoneFor(h) : j \in 1 .. Done
          BY <1>3, DoneFacts DEF StartInv
        <5> QED BY <1>1, <1>2, <3>1, <5>1
      <4> QED BY <1>7, <4>1 DEF LastEntry
    <3>2. CASE h # config.handle
      <4>1. extrinsics'[h] = extrinsics[h] /\ DoneFor(h)' = DoneFor(h)
        BY <1>1, <1>2, <3>2
      <4>2. LastEntry(h)
        BY <1>3, <2>1, <4>1 DEF StartInv, Filled
      <4> QED BY <1>7, <4>1, <4>2 DEF LastEntry
    <3> QED BY <3>1, <3>2
  <2>2. ASSUME NEW h \in Handles, extrinsics'[h] = None PROVE Crowded(h)'
    <3>1. h # config.handle
      BY <1>1, <1>4, <2>2
    <3>2. extrinsics[h] = None /\ DoneFor(h)' = DoneFor(h)
      BY <1>1, <1>2, <2>2, <3>1
    <3>3. Crowded(h)
      BY <1>3, <3>2 DEF StartInv, Filled
    <3>4. ASSUME NEW k \in DoneFor(h), NEW i \in Indices
          PROVE  \E g \in Handles : /\ g # h /\ map_index'[g] = i /\ extrinsics'[g] # None
                                    /\ \E j \in DoneFor(g)' : j < k
      <4>1. PICK g \in Handles : /\ g # h /\ map_index[g] = i /\ extrinsics[g] # None
                                 /\ \E j \in DoneFor(g) : j < k
        BY <3>3 DEF Crowded
      <4>2. i # None
        BY DataPathAssumption
      <4>3. map_index'[g] = i /\ extrinsics'[g] # None
        BY <1>1, <1>4, <1>5, <4>1, <4>2
      <4>4. DoneFor(g) \subseteq DoneFor(g)'
        BY <1>2
      <4> QED BY <4>1, <4>3, <4>4
    <3> QED BY <3>2, <3>4 DEF Crowded
  <2> QED BY <2>1, <2>2 DEF Filled
<1> QED BY <1>2, <1>8, <1>9 DEF StartInv

LEMMA SkipStart ==
  ASSUME BaseInv, StartInv, SkipDevice
  PROVE  StartInv'
<1> DEFINE config == Head(user_configs)
<1>1. /\ user_configs' = Tail(user_configs) /\ user_configs # <<>> /\ phase = "fill"
      /\ GetFreeIndex(config.handle) = None
      /\ UNCHANGED <<setup, phase, map_index, devices, extrinsics>>
  BY DEF SkipDevice
<1>2. /\ Done + 1 \in DOMAIN AllConfigs /\ config = AllConfigs[Done + 1]
      /\ Done' = Done + 1 /\ Remaining'
      /\ \A h \in Handles : DoneFor(h)' = IF h = config.handle THEN DoneFor(h) \cup {Done + 1}
                                          ELSE DoneFor(h)
  BY <1>1, NextEntry DEF StartInv
<1>3. Started /\ Started' /\ phase # "run"
  BY <1>1 DEF Started
<1>4. config.handle \in Handles
  <2>1. config \in UserConfigs
    BY <1>1 DEF BaseInv, TypeInv, TypeOK
  <2> QED BY <2>1 DEF UserConfigs
<1>5. map_index[config.handle] = None /\ FreeIndices = {}
  BY <1>1, <1>4, FreeIndex DEF BaseInv, TypeInv, TypeOK
<1>6. AllConfigs' = AllConfigs
  BY <1>1, SameConfigs
<1> HIDE DEF config
<1>7. Registered'
  BY <1>1, <1>3 DEF StartInv, Registered, Started
<1>8. extrinsics[config.handle] = None
  BY <1>4, <1>5 DEF StartInv, Registered
<1>9. Done \in Nat /\ \A g \in Handles : \A j \in DoneFor(g) : j \in 1 .. Done
  BY <1>3, DoneFacts DEF StartInv
<1>10. ASSUME NEW h \in Handles, extrinsics[h] # None PROVE LastEntry(h)'
  <2>1. h # config.handle /\ DoneFor(h)' = DoneFor(h)
    BY <1>2, <1>8, <1>10
  <2>2. LastEntry(h)
    BY <1>3, <1>10 DEF StartInv, Filled
  <2> QED BY <1>1, <1>6, <2>1, <2>2 DEF LastEntry
<1>11. ASSUME NEW h \in Handles, extrinsics[h] = None PROVE Crowded(h)'
  <2>1. ASSUME NEW k \in DoneFor(h)', NEW i \in Indices
        PROVE  \E g \in Handles : /\ g # h /\ map_index[g] = i /\ extrinsics[g] # None
                                  /\ \E j \in DoneFor(g)' : j < k
    <3>1. CASE k \in DoneFor(h)
      <4>1. Crowded(h)
        BY <1>3, <1>11 DEF StartInv, Filled
      <4>2. PICK g \in Handles : /\ g # h /\ map_index[g] = i /\ extrinsics[g] # None
                                 /\ \E j \in DoneFor(g) : j < k
        BY <3>1, <4>1 DEF Crowded
      <4>3. DoneFor(g) \subseteq DoneFor(g)'
        BY <1>2
      <4> QED BY <4>2, <4>3
    <3>2. CASE k \notin DoneFor(h)
      <4>1. h = config.handle /\ k = Done + 1
        BY <1>2, <2>1, <3>2
      <4>2. PICK g \in Handles : map_index[g] = i
        BY <1>5 DEF FreeIndices
      <4>3. i # None
        BY DataPathAssumption
      <4>4. g # h /\ extrinsics[g] # None
        BY <1>3, <1>5, <4>1, <4>2, <4>3 DEF StartInv, Registered
      <4>5. PICK j \in DoneFor(g) : TRUE
        BY <1>3, <4>4 DEF StartInv, Filled, LastEntry
      <4>6. j \in DoneFor(g)' /\ j < k
        BY <1>2, <1>9, <4>1, <4>4, <4>5
      <4> QED BY <4>2, <4>4, <4>6
    <3> QED BY <3>1, <3>2
  <2> QED BY <1>1, <2>1 DEF Crowded
<1>12. Filled'
  BY <1>1, <1>10, <1>11 DEF Filled
<1> QED BY <1>2, <1>7, <1>12 DEF StartInv

LEMMA ParseStart ==
  ASSUME BaseInv, StartInv, ParseUserConfigs
  PROVE  StartInv'
<1>1. /\ user_configs' = AllConfigs /\ phase = "parse" /\ phase' = "fill"
      /\ UNCHANGED <<setup, map_index, devices, extrinsics>>
  BY DEF ParseUserConfigs, AllConfigs, Listed, HasIps
<1>2. ~Started /\ Started' /\ AllConfigs' = AllConfigs
  BY <1>1, SameConfigs DEF Started
<1>3. AllConfigs \in Seq(UserConfigs) /\ Len(AllConfigs) \in Nat
      /\ DOMAIN AllConfigs = 1 .. Len(AllConfigs)
  BY ListedFacts, SeqElements DEF BaseInv, TypeInv
<1>4. Done' = 0
  BY <1>1, <1>2, <1>3 DEF Done
<1>5. Remaining'
  BY <1>1, <1>2, <1>3, <1>4 DEF Remaining
<1>6. \A h \in Handles : map_index[h] = None
  BY <1>2 DEF StartInv, Registered
<1>7. \A h \in Handles : extrinsics[h] = None
  BY <1>6 DEF StartInv, Registered
<1>8. Registered'
  BY <1>1, <1>2, <1>6, <1>7 DEF StartInv, Registered
<1>9. ASSUME NEW h \in Handles PROVE Crowded(h)'
  <2>1. DoneFor(h)' = {}
    BY <1>4 DEF DoneFor
  <2> QED BY <2>1 DEF Crowded
<1>10. Filled'
  BY <1>1, <1>7, <1>9 DEF Filled
<1> QED BY <1>5, <1>8, <1>10 DEF StartInv

LEMMA ReadyStart ==
  ASSUME BaseInv, StartInv, SetLidarPubHandle
  PROVE  StartInv'
<1>1. /\ user_configs = <<>> /\ phase = "fill" /\ phase' = "run"
      /\ UNCHANGED <<setup, user_configs, map_index, devices, extrinsics>>
  BY DEF SetLidarPubHandle, threads
<1>2. Started /\ Started'
  BY <1>1 DEF Started
<1>3. Done' = Done /\ AllConfigs' = AllConfigs /\ \A h \in Handles : DoneFor(h)' = DoneFor(h)
  BY <1>1, SameDone, SameConfigs
<1>4. Remaining'
  BY <1>1, <1>2, <1>3 DEF StartInv, Remaining
<1>5. Registered'
  BY <1>1, <1>2 DEF StartInv, Registered
<1>6. Filled'
  BY <1>1, <1>2, <1>3 DEF StartInv, Filled, LastEntry, Crowded
<1> QED BY <1>4, <1>5, <1>6 DEF StartInv

LEMMA LoadStart ==
  ASSUME BaseInv, StartInv, LoadParameters
  PROVE  StartInv'
<1>1. /\ phase = "load" /\ phase' = "parse"
      /\ UNCHANGED <<setup, user_configs, map_index, devices, extrinsics>>
  BY DEF LoadParameters
<1>2. ~Started /\ ~Started'
  BY <1>1 DEF Started
<1> QED BY <1>1, <1>2 DEF StartInv, Remaining, Registered, Filled

(* A lidar that is announced gets an index that no other has, and no handle. *)
LEMMA AnnouncedStart ==
  ASSUME BaseInv, StartInv, NEW l \in Handles, LidarInfoChange(l)
  PROVE  StartInv'
<1> DEFINE index == GetFreeIndex(l)
<1>1. /\ phase = "run" /\ map_index[l] = None /\ index # None
      /\ map_index' = [map_index EXCEPT ![l] = index]
      /\ UNCHANGED <<setup, phase, user_configs, extrinsics, devices>>
  BY DEF LidarInfoChange, mainVars
<1>2. map_index \in [Handles -> Indices \cup {None}]
  BY DEF BaseInv, TypeInv, TypeOK
<1>3. index \in FreeIndices
  BY <1>1, <1>2, FreeIndex
<1> HIDE DEF index
<1>4. \A h \in Handles : map_index'[h] = IF h = l THEN index ELSE map_index[h]
  BY <1>1, <1>2
<1>5. \A h \in Handles : map_index[h] # index
  BY <1>3 DEF FreeIndices
<1>6. Started /\ Started'
  BY <1>1 DEF Started
<1>7. Done' = Done /\ AllConfigs' = AllConfigs /\ \A h \in Handles : DoneFor(h)' = DoneFor(h)
  BY <1>1, SameDone, SameConfigs
<1>8. Remaining'
  BY <1>1, <1>6, <1>7 DEF StartInv, Remaining
<1>9. Registered'
  <2>1. ASSUME NEW g \in Handles, NEW h \in Handles,
               map_index'[g] = map_index'[h], map_index'[g] # None
        PROVE  g = h
    BY <1>4, <1>5, <2>1 DEF StartInv, Registered
  <2>2. ASSUME NEW i \in Indices, devices[i].handle # 0 PROVE map_index'[devices[i].handle] = i
    <3> PICK h \in Handles : h = devices[i].handle
      BY <2>2 DEF BaseInv, TypeInv, TypeOK, LidarDevices
    <3>1. map_index[h] = i /\ i # None
      BY <2>2, DataPathAssumption DEF StartInv, Registered
    <3> QED BY <1>1, <1>4, <3>1
  <2>3. ASSUME NEW h \in Handles, extrinsics[h] # None
        PROVE  map_index'[h] # None /\ devices[map_index'[h]].handle = h
    BY <1>1, <1>4, <2>3 DEF StartInv, Registered
  <2> QED BY <1>1, <1>6, <2>1, <2>2, <2>3 DEF Registered
<1>10. ASSUME NEW h \in Handles, Crowded(h) PROVE Crowded(h)'
  <2>1. ASSUME NEW k \in DoneFor(h), NEW i \in Indices
        PROVE  \E g \in Handles : /\ g # h /\ map_index'[g] = i /\ extrinsics'[g] # None
                                  /\ \E j \in DoneFor(g)' : j < k
    <3>1. PICK g \in Handles : /\ g # h /\ map_index[g] = i /\ extrinsics[g] # None
                               /\ \E j \in DoneFor(g) : j < k
      BY <1>10 DEF Crowded
    <3>2. i # None
      BY DataPathAssumption
    <3> QED BY <1>1, <1>4, <1>7, <3>1, <3>2
  <2> QED BY <1>7, <2>1 DEF Crowded
<1>11. \A h \in Handles : LastEntry(h) => LastEntry(h)'
  BY <1>1, <1>7 DEF LastEntry
<1>12. Filled'
  BY <1>1, <1>6, <1>10, <1>11 DEF StartInv, Filled
<1> QED BY <1>8, <1>9, <1>12 DEF StartInv

(* Whatever else the threads do. *)
LEMMA QuietStart ==
  ASSUME BaseInv, StartInv, UNCHANGED <<mainVars, map_index>>,
         \A i \in Indices : devices'[i].handle = devices[i].handle
  PROVE  StartInv'
<1>1. UNCHANGED <<setup, phase, user_configs, extrinsics, map_index>>
  BY DEF mainVars
<1>2. Started' = Started
  BY <1>1 DEF Started
<1>3. Done' = Done /\ AllConfigs' = AllConfigs /\ \A h \in Handles : DoneFor(h)' = DoneFor(h)
  BY <1>1, SameDone, SameConfigs
<1>4. Remaining'
  BY <1>1, <1>2, <1>3 DEF StartInv, Remaining
<1>5. Registered'
  <2>1. \A h \in Handles : map_index[h] \in Indices \cup {None}
    BY DEF BaseInv, TypeInv, TypeOK
  <2>2. ASSUME NEW h \in Handles, extrinsics'[h] # None
        PROVE  map_index'[h] # None /\ devices'[map_index'[h]].handle = h
    BY <1>1, <2>1, <2>2 DEF StartInv, Registered
  <2>3. ASSUME NEW i \in Indices, devices'[i].handle # 0
        PROVE  map_index'[devices'[i].handle] = i
    BY <1>1, <2>3 DEF StartInv, Registered
  <2> QED BY <1>1, <1>2, <2>2, <2>3 DEF StartInv, Registered
<1>6. Filled'
  BY <1>1, <1>2, <1>3 DEF StartInv, Filled, LastEntry, Crowded
<1> QED BY <1>4, <1>5, <1>6 DEF StartInv

LEMMA StartStep == BaseInv /\ StartInv /\ [Next]_vars => StartInv'
<1> SUFFICES ASSUME BaseInv, StartInv, [Next]_vars PROVE StartInv'
  OBVIOUS
<1>1. ASSUME NEW h \in Handles, SetSampling(h) PROVE StartInv'
  BY <1>1, SampledDevices, QuietStart DEF BaseInv
<1>2. ASSUME NEW h \in Handles, NEW kind \in setup.kinds, NEW raw \in setup.clouds,
             NEW stamp \in setup.stamps, RawDataProcess(h, kind, raw, stamp)
      PROVE  StartInv'
  BY <1>2, QuietStart DEF RawDataProcess
<1>3. ASSUME NEW h \in Handles, PublishPointCloud(h) PROVE StartInv'
  BY <1>3, StoredDevices, QuietStart
<1>4. ASSUME NEW i \in Indices, Distribute(i) PROVE StartInv'
  BY <1>4, PolledDevices, QuietStart
<1>5. CASE UNCHANGED vars
  BY <1>5, QuietStart DEF vars, mainVars
<1> QED
  BY <1>1, <1>2, <1>3, <1>4, <1>5, LoadStart, ParseStart, FillStart, SkipStart, ReadyStart,
     AnnouncedStart DEF Next

LEMMA InitStart == Init => StartInv
<1> SUFFICES ASSUME Init PROVE StartInv
  OBVIOUS
<1>1. ~Started
  BY DEF Init, Started
<1>2. Remaining
  BY <1>1 DEF Init, Remaining
<1>3. Registered
  BY <1>1 DEF Init, Registered, NoDevice
<1> QED BY <1>1, <1>2, <1>3 DEF StartInv, Filled

LEMMA StartCorrect == Spec => []StartInv
BY InitStart, StartStep, BaseCorrect, PTL DEF Spec

(* The entries of h, in the file and among the parsed ones. *)
LEMMA EntriesListed ==
  ASSUME BaseInv, StartInv, phase = "run", NEW h \in Handles
  PROVE  /\ \A i \in DoneFor(h) : Places[i] \in Entries(h)
         /\ \A k \in Entries(h) : \E i \in DoneFor(h) : Places[i] = k
         /\ \A i, j \in 1 .. Done : i < j => Places[i] < Places[j]
         /\ \A i \in 1 .. Done : /\ Places[i] \in Nat
                                 /\ AllConfigs[i] = ParseUserConfig(setup.lidar_configs[Places[i]])
         /\ Entries(h) \subseteq HasIps /\ HasIps \subseteq Nat /\ Done \in Nat
<1> DEFINE configs == setup.lidar_configs
<1>1. Len(configs) \in Nat /\ DOMAIN configs = 1 .. Len(configs)
  <2>1. configs \in Seq({configs[k] : k \in DOMAIN configs})
    BY SetupFacts DEF BaseInv, TypeInv, IsSetup
  <2> HIDE DEF configs
  <2> QED BY <2>1, SeqElements
<1>2. /\ AllConfigs \in Seq(UserConfigs) /\ Len(AllConfigs) = Len(Places)
      /\ Passes(Listed, Places, configs, HasIps)
      /\ \A k \in DOMAIN AllConfigs : AllConfigs[k] = ParseUserConfig(configs[Places[k]])
  BY ListedFacts DEF BaseInv, TypeInv
<1>3. Done = Len(AllConfigs) /\ Done \in Nat /\ DOMAIN AllConfigs = 1 .. Done
  <2>1. user_configs = <<>>
    BY DEF StartInv, Remaining
  <2>2. Len(user_configs) = 0
    BY <2>1
  <2> QED BY <1>2, <2>2, SeqElements DEF Done
<1>4. DOMAIN Listed = 1 .. Done
  BY <1>2, <1>3 DEF Passes
<1>5. Entries(h) = {k \in HasIps : configs[k].ip = h} /\ HasIps \subseteq DOMAIN configs
  BY DEF Entries, HasIps
<1>6. \A i \in 1 .. Done : /\ Places[i] \in DOMAIN configs /\ Places[i] \in HasIps
                           /\ AllConfigs[i] = ParseUserConfig(configs[Places[i]])
                           /\ AllConfigs[i].handle = configs[Places[i]].ip
  BY <1>2, <1>3, <1>4 DEF Passes, ParseUserConfig
<1> HIDE DEF configs
<1>7. \A i \in DoneFor(h) : Places[i] \in Entries(h)
  BY <1>5, <1>6 DEF DoneFor
<1>8. ASSUME NEW k \in Entries(h) PROVE \E i \in DoneFor(h) : Places[i] = k
  <2>1. k \in HasIps \cap DOMAIN configs /\ configs[k].ip = h
    BY <1>5, <1>8
  <2>2. PICK i \in 1 .. Done : Places[i] = k
    BY <1>2, <1>4, <2>1 DEF Passes
  <2> QED BY <1>6, <2>1, <2>2 DEF DoneFor
<1>9. \A i, j \in 1 .. Done : i < j => Places[i] < Places[j]
  BY <1>2, <1>4 DEF Passes
<1>10. \A i \in 1 .. Done : Places[i] \in Nat
  BY <1>1, <1>6
<1>11. HasIps \subseteq Nat
  BY <1>1, <1>5
<1> QED BY <1>3, <1>5, <1>6, <1>7, <1>8, <1>9, <1>10, <1>11 DEF configs

(* Only as many lidars are mentioned in the file as it has entries. *)
LEMMA FiniteMentioned ==
  ASSUME setup \in Setups
  PROVE  IsFiniteSet({setup.lidar_configs[k].ip : k \in HasIps})
<1> DEFINE configs == setup.lidar_configs
           ips == {configs[k].ip : k \in HasIps}
           f == [k \in HasIps |-> configs[k].ip]
<1>1. Len(configs) \in Nat /\ DOMAIN configs = 1 .. Len(configs)
  <2>1. configs \in Seq({configs[k] : k \in DOMAIN configs})
    BY SetupFacts DEF IsSetup
  <2> HIDE DEF configs
  <2> QED BY <2>1, SeqElements
<1>2. IsFiniteSet(1 .. Len(configs))
  BY <1>1, FS_Interval
<1>3. HasIps \in SUBSET (1 .. Len(configs))
  BY <1>1 DEF HasIps
<1>4. IsFiniteSet(HasIps)
  <2> HIDE DEF configs
  <2> QED BY <1>2, <1>3, FS_Subset
<1>5. f \in Surjection(HasIps, ips)
  BY DEF Surjection
<1> HIDE DEF f, ips
<1>6. IsFiniteSet(ips)
  BY <1>4, <1>5, FS_Surjection
<1> QED BY <1>6 DEF ips, configs

(* A lidar that is listed before the table is full has the extrinsics of its last
   entry once the threads run. *)
LEMMA PlacedIsFilled ==
  ASSUME BaseInv, StartInv, phase = "run", NEW h \in Handles, Placed(h)
  PROVE  /\ extrinsics[h] # None
         /\ extrinsics[h] = LidarParam(ParseUserConfig(EntryOf(h)))
         /\ EntryOf(h) \in {setup.lidar_configs[k] : k \in DOMAIN setup.lidar_configs}
         /\ HasIp(EntryOf(h))
<1> DEFINE configs == setup.lidar_configs
<1>1. Started
  BY DEF Started
<1>2. extrinsics[h] # None
  <2> SUFFICES ASSUME extrinsics[h] = None PROVE FALSE
    OBVIOUS
  <2>1. Crowded(h)
    BY <1>1 DEF StartInv, Filled
  <2>2. PICK k \in Entries(h) :
          Cardinality({g \in Handles \ {h} : \E j \in Entries(g) : j < k}) < kMaxSourceLidar
    BY DEF Placed
  <2> DEFINE others == {g \in Handles \ {h} : \E j \in Entries(g) : j < k}
             owners == {g \in others : map_index[g] \in Indices}
             f == [g \in owners |-> map_index[g]]
  <2>3. PICK i \in DoneFor(h) : Places[i] = k
    BY EntriesListed
  <2>4. ASSUME NEW n \in Indices PROVE \E g \in owners : map_index[g] = n
    <3>1. PICK g \in Handles : g # h /\ map_index[g] = n /\ \E j \in DoneFor(g) : j < i
      BY <2>1, <2>3 DEF Crowded
    <3>2. PICK j \in DoneFor(g) : j < i
      BY <3>1
    <3>3. Places[j] < Places[i]
      BY <2>3, <3>2, EntriesListed DEF DoneFor
    <3>4. Places[j] \in Entries(g)
      BY <3>2, EntriesListed
    <3> QED BY <2>3, <3>1, <3>3, <3>4
  <2>5. IsFiniteSet(others)
    <3>1. others \in SUBSET {configs[j].ip : j \in HasIps}
      BY DEF Entries, HasIps
    <3> HIDE DEF others
    <3> QED BY <3>1, FiniteMentioned, FS_Subset DEF BaseInv, TypeInv
  <2>6. owners \in SUBSET others
    OBVIOUS
  <2>7. f \in Surjection(owners, Indices)
    <3>1. f \in [owners -> Indices]
      OBVIOUS
    <3>2. \A n \in Indices : \E g \in owners : f[g] = n
      BY <2>4
    <3> HIDE DEF f, owners
    <3> QED BY <3>1, <3>2 DEF Surjection
  <2> HIDE DEF f, owners
  <2>8. IsFiniteSet(owners) /\ Cardinality(owners) <= Cardinality(others)
    <3> HIDE DEF others
    <3> QED BY <2>5, <2>6, FS_Subset
  <2>9. Cardinality(Indices) <= Cardinality(owners)
    BY <2>7, <2>8, FS_Surjection
  <2>10. Cardinality(Indices) = kMaxSourceLidar
    <3>1. kMaxSourceLidar - 1 \in Int /\ ~(0 > kMaxSourceLidar - 1) /\ 0 \in Int
      BY DataPathAssumption
    <3>2. Cardinality(0 .. kMaxSourceLidar - 1) = (kMaxSourceLidar - 1) - 0 + 1
      BY <3>1, FS_Interval
    <3> QED BY <3>2, DataPathAssumption DEF Indices
  <2>11. Cardinality(owners) \in Nat /\ Cardinality(others) \in Nat
    <3> HIDE DEF others
    <3> QED BY <2>5, <2>8, FS_CardinalityType
  <2>12. Cardinality(others) < kMaxSourceLidar
    BY <2>2
  <2> HIDE DEF others
  <2> QED BY <2>8, <2>9, <2>10, <2>11, <2>12, DataPathAssumption
<1>3. PICK k \in DoneFor(h) :
        extrinsics[h] = LidarParam(AllConfigs[k]) /\ \A j \in DoneFor(h) : j <= k
  BY <1>1, <1>2 DEF StartInv, Filled, LastEntry
<1>4. Places[k] \in Entries(h) /\ \A j \in Entries(h) : j <= Places[k]
  <2>1. Places[k] \in Entries(h)
    BY <1>3, EntriesListed
  <2>2. ASSUME NEW j \in Entries(h) PROVE j <= Places[k]
    <3>1. PICK m \in DoneFor(h) : Places[m] = j
      BY EntriesListed
    <3>2. /\ m <= k /\ m \in 1 .. Done /\ k \in 1 .. Done
          /\ Places[m] \in Nat /\ Places[k] \in Nat /\ m \in Nat /\ k \in Nat
      BY <1>3, <3>1, EntriesListed DEF DoneFor
    <3>3. m < k => Places[m] < Places[k]
      BY <3>2, EntriesListed
    <3> QED BY <3>1, <3>2, <3>3
  <2> QED BY <2>1, <2>2
<1>5. EntryOf(h) = configs[Places[k]]
  <2> DEFINE last == CHOOSE n \in Entries(h) : \A j \in Entries(h) : j <= n
  <2>1. last \in Entries(h) /\ \A j \in Entries(h) : j <= last
    BY <1>4
  <2>2. last \in Nat /\ Places[k] \in Nat
    BY <1>4, <2>1, EntriesListed
  <2>3. last = Places[k]
    <3> HIDE DEF last
    <3> QED BY <1>4, <2>1, <2>2
  <2> QED BY <2>3 DEF EntryOf
<1>6. extrinsics[h] = LidarParam(ParseUserConfig(configs[Places[k]]))
  BY <1>3, EntriesListed DEF DoneFor
<1>7. Places[k] \in DOMAIN configs /\ HasIp(configs[Places[k]])
  BY <1>4 DEF Entries
<1> QED BY <1>2, <1>5, <1>6, <1>7

-----------------------------------------------------------------------------
(* One point, from its packet to its place in the vehicle. *)

LEMMA KindCases ==
  ASSUME NEW from, NEW raw, NEW handler
  PROVE  /\ PlaceOf(High, raw, handler) = ProcessCartesianHighPoint(raw, handler)
         /\ PlaceOf(Low, raw, handler) = ProcessCartesianLowPoint(raw, handler)
         /\ PlaceOf(Spherical, raw, handler) = ProcessSphericalPoint(raw, handler)
         /\ from.kind = High => InMm(from) = from.raw
         /\ from.kind = Low => InMm(from) = Tenfold(from.raw)
         /\ from.kind = Spherical => InMm(from) = Cartesian(from.raw)
<1>1. PlaceOf(High, raw, handler) = ProcessCartesianHighPoint(raw, handler)
  BY KindNames, Zenon DEF PlaceOf
<1>2. PlaceOf(Low, raw, handler) = ProcessCartesianLowPoint(raw, handler)
  BY KindNames, Zenon DEF PlaceOf
<1>3. PlaceOf(Spherical, raw, handler) = ProcessSphericalPoint(raw, handler)
  BY KindNames, Zenon DEF PlaceOf
<1>4. from.kind = High => InMm(from) = from.raw
  BY KindNames, Zenon DEF InMm
<1>5. from.kind = Low => InMm(from) = Tenfold(from.raw)
  BY KindNames, Zenon DEF InMm
<1>6. from.kind = Spherical => InMm(from) = Cartesian(from.raw)
  BY KindNames, Zenon DEF InMm
<1> QED BY <1>1, <1>2, <1>3, <1>4, <1>5, <1>6

LEMMA NearItself == \A p \in Vectors : Near(p, p)
BY DEF Near, Vectors, Axes, Abs

LEMMA TenfoldTurns ==
  ASSUME NEW rpy \in Vectors, NEW p \in Vectors
  PROVE  Turn(rpy, Tenfold(p)) = Tenfold(Turn(rpy, p))
<1>1. rpy[1] \in Int /\ rpy[2] \in Int /\ rpy[3] \in Int
  BY DEF Vectors
<1>2. ASSUME NEW q \in Int, NEW w \in Vectors
      PROVE  /\ TurnX(q, Tenfold(w)) = Tenfold(TurnX(q, w))
             /\ TurnY(q, Tenfold(w)) = Tenfold(TurnY(q, w))
             /\ TurnZ(q, Tenfold(w)) = Tenfold(TurnZ(q, w))
             /\ TurnX(q, w) \in Vectors /\ TurnY(q, w) \in Vectors
  <2>1. Cos(q) \in Int /\ Sin(q) \in Int /\ w[1] \in Int /\ w[2] \in Int /\ w[3] \in Int
    BY TurnInt DEF Vectors
  <2>2. \A a, b, c, d \in Int : /\ a * (10 * b) + c * (10 * d) = 10 * (a * b + c * d)
                                /\ a * (10 * b) - c * (10 * d) = 10 * (a * b - c * d)
    OBVIOUS
  <2> QED BY <2>1, <2>2 DEF TurnX, TurnY, TurnZ, Tenfold, Vectors
<1> QED BY <1>1, <1>2 DEF Turn

(* In centimetres the translation loses its millimetres, and nothing else. *)
LEMMA NearInCentimetres ==
  ASSUME NEW p \in Vectors, NEW v \in Vectors
  PROVE  Near(Tenfold(Shift(p, [k \in Axes |-> Tenth(v[k])])), Shift(Tenfold(p), v))
<1>1. p[1] \in Int /\ p[2] \in Int /\ p[3] \in Int /\ v[1] \in Int /\ v[2] \in Int /\ v[3] \in Int
  BY DEF Vectors
<1> DEFINE t(k) == Tenth(v[k])
<1>2. ASSUME NEW k \in Axes
      PROVE  t(k) \in Int /\ Abs(10 * (p[k] + t(k)) - (10 * p[k] + v[k])) <= 9
  <2>1. p[k] \in Int /\ v[k] \in Int
    BY <1>1 DEF Axes
  <2>2. t(k) \in Int /\ 10 * t(k) - v[k] <= 9 /\ v[k] - 10 * t(k) <= 9
    BY <2>1, TenthBounds
  <2> HIDE DEF t
  <2> QED BY <2>1, <2>2 DEF Abs
<1> HIDE DEF t
<1>3. Tenfold(Shift(p, [k \in Axes |-> t(k)]))
        = <<10 * (p[1] + t(1)), 10 * (p[2] + t(2)), 10 * (p[3] + t(3))>>
  BY DEF Tenfold, Shift, Axes
<1>4. Shift(Tenfold(p), v) = <<10 * p[1] + v[1], 10 * p[2] + v[2], 10 * p[3] + v[3]>>
  BY DEF Tenfold, Shift
<1>5. Near(Tenfold(Shift(p, [k \in Axes |-> t(k)])), Shift(Tenfold(p), v))
  BY <1>2, <1>3, <1>4 DEF Near, Axes
<1> QED BY <1>5 DEF t

LEMMA PointIsMounted ==
  ASSUME NEW from, NEW handler, from.kind \in Kinds, from.raw \in Vectors,
         IsEntry(EntryOf(from.handle)), HasIp(EntryOf(from.handle)),
         handler.rotation
           = ExtrinsicRotation(LidarParam(ParseUserConfig(EntryOf(from.handle))).rpy),
         handler.trans = LidarParam(ParseUserConfig(EntryOf(from.handle))).xyz,
         (from.kind = Low) = (Field(EntryOf(from.handle), "pcl_data_type", -1) = Low)
  PROVE  Near(PlaceOf(from.kind, from.raw, handler), Mounted(from))
<1> DEFINE config == ParseUserConfig(EntryOf(from.handle))
           rpy == config.extrinsic_param.rpy
           xyz == config.extrinsic_param.xyz
           param == LidarParam(config)
<1>1. config \in UserConfigs
  BY ParsedType
<1>2. rpy \in Vectors /\ xyz \in Vectors
  BY <1>1 DEF UserConfigs, ExtrinsicParams
<1>3. Mounted(from) = Shift(Turn(rpy, InMm(from)), xyz)
  BY DEF Mounted, ParseUserConfig, ParseExtrinsics
<1>4. config.pcl_data_type = Field(EntryOf(from.handle), "pcl_data_type", -1)
  BY DEF ParseUserConfig
<1>5. /\ param.rpy = rpy
      /\ param.xyz = IF config.pcl_data_type = Low THEN [k \in Axes |-> Tenth(xyz[k])] ELSE xyz
  BY DEF LidarParam
<1> HIDE DEF config
<1>6. handler.rotation = ExtrinsicRotation(rpy) /\ handler.trans = param.xyz
  BY <1>5 DEF config
<1> HIDE DEF rpy, xyz, param
<1>7. \A p \in Vectors, v \in Vectors :
        TransformPoint(p, ExtrinsicRotation(rpy), v) = Shift(Turn(rpy, p), v)
  BY <1>2, ExtrinsicIsTurn
<1>8. CASE from.kind = High
  <2>1. handler.trans = xyz
    BY <1>4, <1>5, <1>6, <1>8, KindNames
  <2>2. PlaceOf(from.kind, from.raw, handler) = Mounted(from)
    BY <1>2, <1>3, <1>6, <1>7, <1>8, <2>1, KindCases DEF ProcessCartesianHighPoint
  <2>3. Mounted(from) \in Vectors
    BY <1>2, <1>3, <1>8, KindCases, TurnedVector
  <2> QED BY <2>2, <2>3, NearItself
<1>9. CASE from.kind = Spherical
  <2>1. handler.trans = xyz
    BY <1>4, <1>5, <1>6, <1>9, KindNames
  <2>2. Cartesian(from.raw) \in Vectors
    BY CartesianType
  <2>3. PlaceOf(from.kind, from.raw, handler) = Mounted(from)
    BY <1>2, <1>3, <1>6, <1>7, <1>9, <2>1, <2>2, KindCases DEF ProcessSphericalPoint
  <2>4. Mounted(from) \in Vectors
    BY <1>2, <1>3, <1>9, <2>2, KindCases, TurnedVector
  <2> QED BY <2>3, <2>4, NearItself
<1>10. CASE from.kind = Low
  <2> DEFINE shift == [k \in Axes |-> Tenth(xyz[k])]
  <2>1. handler.trans = shift
    BY <1>4, <1>5, <1>6, <1>10
  <2>2. shift \in Vectors
    BY <1>2, TenthBounds DEF Vectors, Axes
  <2>3. Near(Tenfold(Shift(Turn(rpy, from.raw), shift)), Shift(Tenfold(Turn(rpy, from.raw)), xyz))
    BY <1>2, TurnedVector, NearInCentimetres
  <2> HIDE DEF shift
  <2>4. PlaceOf(from.kind, from.raw, handler) = Tenfold(Shift(Turn(rpy, from.raw), shift))
    BY <1>6, <1>7, <1>10, <2>1, <2>2, KindCases DEF ProcessCartesianLowPoint
  <2>5. Mounted(from) = Shift(Tenfold(Turn(rpy, from.raw)), xyz)
    BY <1>2, <1>3, <1>10, KindCases, TenfoldTurns
  <2> QED BY <2>3, <2>4, <2>5
<1> QED BY <1>8, <1>9, <1>10, KindNames

-----------------------------------------------------------------------------
(* The flow of the points. *)

LEMMA SameEntries ==
  ASSUME setup' = setup
  PROVE  \A h : Entries(h)' = Entries(h) /\ EntryOf(h)' = EntryOf(h) /\ Placed(h)' = Placed(h)
<1>1. \A h : Entries(h)' = Entries(h)
  BY DEF Entries
<1>2. \A h : EntryOf(h)' = EntryOf(h)
  BY <1>1 DEF EntryOf
<1>3. \A h : Placed(h)' = Placed(h)
  BY <1>1 DEF Placed
<1> QED BY <1>1, <1>2, <1>3

LEMMA SameKnown ==
  ASSUME setup' = setup
  PROVE  /\ \A p, h : Known(p, h)' = Known(p, h)
         /\ \A frame, h : KnownFrame(frame, h)' = KnownFrame(frame, h)
         /\ \A p, frame : IsPointOf(p, frame)' = IsPointOf(p, frame)
<1>1. \A from : Mounted(from)' = Mounted(from)
  BY SameEntries DEF Mounted
<1>2. \A p : Compensated(p)' = Compensated(p)
  BY <1>1, SameEntries DEF Compensated
<1>3. \A p, h : Known(p, h)' = Known(p, h)
  BY <1>2 DEF Known
<1>4. \A frame, h : KnownFrame(frame, h)' = KnownFrame(frame, h)
  BY <1>3 DEF KnownFrame
<1>5. \A p, frame : IsPointOf(p, frame)' = IsPointOf(p, frame)
  BY DEF IsPointOf
<1> QED BY <1>3, <1>4, <1>5

(* Before the threads run nothing flows. *)
LEMMA StartFlow ==
  ASSUME BaseInv,
         \/ LoadParameters \/ ParseUserConfigs \/ FillDevice \/ SkipDevice
         \/ SetLidarPubHandle
  PROVE  FlowInv'
<1>1. phase # "run" /\ UNCHANGED threads
  BY DEF LoadParameters, ParseUserConfigs, FillDevice, SkipDevice, SetLidarPubHandle
<1>2. \A i \in Indices : devices'[i].queue = devices[i].queue
  <2>1. CASE FillDevice
    BY <2>1, FilledDevices DEF BaseInv
  <2>2. CASE ~FillDevice
    BY <2>2 DEF LoadParameters, ParseUserConfigs, SkipDevice, SetLidarPubHandle
  <2> QED BY <2>1, <2>2
<1>3. /\ \A h \in Handles : handlers'[h] = None
      /\ \A i \in Indices : devices'[i].queue = <<>> /\ topics'[i] = None
      /\ outcomes' = {}
  BY <1>1, <1>2 DEF BaseInv, Idle, threads
<1> QED BY <1>3 DEF FlowInv, HandlersKnown, QueuesKnown, TopicsNamed

LEMMA AnnouncedFlow ==
  ASSUME BaseInv, FlowInv, NEW l \in Handles, LidarInfoChange(l)
  PROVE  FlowInv'
<1>1. /\ map_index[l] = None
      /\ map_index' = [map_index EXCEPT ![l] = GetFreeIndex(l)]
      /\ UNCHANGED <<mainVars, devices, threads>>
  BY DEF LidarInfoChange
<1>2. \A h \in Handles : map_index[h] # None => map_index'[h] = map_index[h]
  BY <1>1 DEF BaseInv, TypeInv, TypeOK
<1>3. UNCHANGED <<setup, extrinsics, handlers, devices, topics, outcomes>>
  BY <1>1 DEF mainVars, threads
<1>4. /\ \A p, h : Known(p, h)' = Known(p, h)
      /\ \A frame, h : KnownFrame(frame, h)' = KnownFrame(frame, h)
      /\ \A p, frame : IsPointOf(p, frame)' = IsPointOf(p, frame)
  BY <1>3, SameKnown
<1>5. HandlersKnown'
  BY <1>3, <1>4 DEF FlowInv, HandlersKnown
<1>6. QueuesKnown'
  <2> SUFFICES ASSUME NEW i \in Indices, NEW n \in DOMAIN devices[i].queue
               PROVE  \E h \in Handles : map_index'[h] = i /\ KnownFrame(devices[i].queue[n], h)
    BY <1>3, <1>4 DEF QueuesKnown
  <2>1. PICK h \in Handles : map_index[h] = i /\ KnownFrame(devices[i].queue[n], h)
    BY DEF FlowInv, QueuesKnown
  <2> QED BY <1>2, <2>1, DataPathAssumption
<1>7. TopicsNamed'
  BY <1>3 DEF FlowInv, TopicsNamed
<1>8. ASSUME NEW o \in outcomes PROVE KnownOutcome(o)'
  <2>1. KnownOutcome(o)
    BY DEF FlowInv
  <2> QED BY <1>2, <1>3, <1>4, <2>1 DEF KnownOutcome
<1> QED BY <1>3, <1>5, <1>6, <1>7, <1>8 DEF FlowInv

LEMMA SampledFlow ==
  ASSUME BaseInv, FlowInv, NEW l \in Handles, SetSampling(l)
  PROVE  FlowInv'
<1>1. /\ \A i \in Indices : /\ devices'[i].handle = devices[i].handle
                            /\ devices'[i].queue = devices[i].queue
      /\ UNCHANGED <<setup, extrinsics, map_index, handlers, topics, outcomes>>
  BY SampledDevices DEF BaseInv, mainVars, threads
<1>2. /\ \A p, h : Known(p, h)' = Known(p, h)
      /\ \A frame, h : KnownFrame(frame, h)' = KnownFrame(frame, h)
      /\ \A p, frame : IsPointOf(p, frame)' = IsPointOf(p, frame)
  BY <1>1, SameKnown
<1>3. HandlersKnown'
  BY <1>1, <1>2 DEF FlowInv, HandlersKnown
<1>4. QueuesKnown'
  BY <1>1, <1>2 DEF FlowInv, QueuesKnown
<1>5. TopicsNamed'
  BY <1>1 DEF FlowInv, TopicsNamed
<1>6. ASSUME NEW o \in outcomes PROVE KnownOutcome(o)'
  <2>1. PICK h \in Handles :
          /\ map_index[h] # None /\ KnownFrame(o.frame, h)
          /\ \A k \in DOMAIN o.points : IsPointOf(o.points[k], o.frame)
          /\ o.published /\ setup.multi_topic =>
               o.topic = <<"livox/lidar_", devices[map_index[h]].handle>>
    BY DEF FlowInv, KnownOutcome
  <2>2. map_index[h] \in Indices
    BY <2>1 DEF BaseInv, TypeInv, TypeOK
  <2>3. devices'[map_index'[h]].handle = devices[map_index[h]].handle
    BY <1>1, <2>2
  <2> QED BY <1>1, <1>2, <2>1, <2>3 DEF KnownOutcome
<1> QED BY <1>1, <1>3, <1>4, <1>5, <1>6 DEF FlowInv

(* The points of a packet that the handler of h takes in. *)
LEMMA PacketKnown ==
  ASSUME BaseInv, StartInv, FlowInv, phase = "run",
         NEW h \in Handles, NEW kind \in Kinds, NEW raw \in Seq(Vectors), NEW stamp \in Nat,
         NEW handler \in LidarPubHandlers,
         extrinsics[h] # None => /\ handler.rotation = ExtrinsicRotation(extrinsics[h].rpy)
                                 /\ handler.trans = extrinsics[h].xyz
  PROVE  \A k \in DOMAIN raw : Known(PointCloudProcess(h, kind, raw, stamp, handler)[k], h)
<1> SUFFICES ASSUME NEW k \in DOMAIN raw
             PROVE  Known(PointCloudProcess(h, kind, raw, stamp, handler)[k], h)
  OBVIOUS
<1> DEFINE p == PointCloudProcess(h, kind, raw, stamp, handler)[k]
<1>1. /\ p.from = [handle |-> h, kind |-> kind, raw |-> raw[k], stamp |-> stamp + k - 1]
      /\ p.time = stamp + k - 1
      /\ p.at = PlaceOf(kind, raw[k], handler)
  <2> HIDE DEF p
  <2>1. \A n \in DOMAIN raw :
          LET q == PointCloudProcess(h, kind, raw, stamp, handler)[n]
          IN /\ q.from = [handle |-> h, kind |-> kind, raw |-> raw[n], stamp |-> stamp + n - 1]
             /\ q.time = stamp + n - 1
             /\ q.at = PlaceOf(kind, raw[n], handler)
    BY PacketPoints
  <2> QED BY <2>1 DEF p
<1> HIDE DEF p
<1>2. p.from.handle = h /\ p.from.kind = kind /\ p.from.raw = raw[k] /\ p.time = p.from.stamp
  BY <1>1
<1>3. ASSUME Placed(h), (kind = Low) = (Field(EntryOf(h), "pcl_data_type", -1) = Low)
      PROVE  Near(p.at, Mounted(p.from))
  <2>1. /\ extrinsics[h] # None
        /\ extrinsics[h] = LidarParam(ParseUserConfig(EntryOf(h)))
        /\ EntryOf(h) \in {setup.lidar_configs[n] : n \in DOMAIN setup.lidar_configs}
        /\ HasIp(EntryOf(h))
    BY <1>3, PlacedIsFilled
  <2>2. IsEntry(EntryOf(h))
    BY <2>1, SetupFacts DEF BaseInv, TypeInv, IsSetup
  <2>3. raw[k] \in Vectors
    BY SeqElements
  <2>4. /\ handler.rotation = ExtrinsicRotation(LidarParam(ParseUserConfig(EntryOf(h))).rpy)
        /\ handler.trans = LidarParam(ParseUserConfig(EntryOf(h))).xyz
    BY <2>1
  <2> QED BY <1>1, <1>2, <1>3, <2>1, <2>2, <2>3, <2>4, PointIsMounted
<1>4. Compensated(p)
  BY <1>2, <1>3 DEF Compensated
<1> QED BY <1>2, <1>4 DEF Known, p

LEMMA RawDataFlow ==
  ASSUME BaseInv, StartInv, FlowInv, NEW h \in Handles, NEW kind \in setup.kinds,
         NEW raw \in setup.clouds, NEW stamp \in setup.stamps, RawDataProcess(h, kind, raw, stamp)
  PROVE  FlowInv'
<1> DEFINE found == IF handlers[h] = None THEN NewHandler ELSE handlers[h]
           handler == IF extrinsics[h] = None THEN found
                      ELSE SetLidarsExtParam(found, extrinsics[h])
           points == PointCloudProcess(h, kind, raw, stamp, handler)
           new == [handler EXCEPT !.cloud = handler.cloud \o points]
<1>1. kind \in Kinds /\ raw \in Seq(Vectors) /\ stamp \in Nat
  BY SetupFacts DEF BaseInv, TypeInv
<1>2. /\ handlers' = [handlers EXCEPT ![h] = new] /\ phase = "run"
      /\ UNCHANGED <<mainVars, map_index, devices, topics, outcomes>>
  BY DEF RawDataProcess
<1>3. /\ \A g \in Handles : extrinsics[g] \in ExtrinsicParams \cup {None}
      /\ \A g \in Handles : handlers[g] \in LidarPubHandlers \cup {None}
      /\ handlers \in [Handles -> LidarPubHandlers \cup {None}]
  BY DEF BaseInv, TypeInv, TypeOK
<1>4. /\ found \in LidarPubHandlers
      /\ \A k \in DOMAIN found.cloud : Known(found.cloud[k], h)
      /\ found.is_set => extrinsics[h] # None
      /\ extrinsics[h] # None /\ found.is_set =>
           /\ found.rotation = ExtrinsicRotation(extrinsics[h].rpy)
           /\ found.trans = extrinsics[h].xyz
  <2>1. CASE handlers[h] = None
    <3>1. found = NewHandler
      BY <2>1
    <3>2. DOMAIN NewHandler.cloud = {}
      BY NewHandlerType
    <3> HIDE DEF found
    <3> QED BY <3>1, <3>2, NewHandlerType
  <2>2. CASE handlers[h] # None
    <3>1. found = handlers[h]
      BY <2>2
    <3> HIDE DEF found
    <3> QED BY <1>3, <2>2, <3>1 DEF FlowInv, HandlersKnown
  <2> QED BY <2>1, <2>2
<1> HIDE DEF found
<1>5. /\ handler \in LidarPubHandlers /\ handler.cloud = found.cloud
      /\ handler.is_set = (extrinsics[h] # None)
      /\ extrinsics[h] # None => /\ handler.rotation = ExtrinsicRotation(extrinsics[h].rpy)
                                 /\ handler.trans = extrinsics[h].xyz
  <2>1. CASE extrinsics[h] = None
    <3>1. handler = found /\ found.is_set \in BOOLEAN
      BY <1>4, <2>1 DEF LidarPubHandlers
    <3> HIDE DEF handler
    <3> QED BY <1>4, <2>1, <3>1
  <2>2. CASE extrinsics[h] # None
    <3>1. handler = SetLidarsExtParam(found, extrinsics[h]) /\ extrinsics[h] \in ExtrinsicParams
      BY <1>3, <2>2
    <3>2. handler \in LidarPubHandlers /\ handler.is_set /\ handler.cloud = found.cloud
      BY <1>4, <3>1, HandlerType
    <3>3. handler.is_set \in BOOLEAN
      BY <3>2 DEF LidarPubHandlers
    <3>4. CASE found.is_set
      <4>1. handler = found
        BY <1>4, <3>1, <3>4, HandlerType
      <4> HIDE DEF handler
      <4> QED BY <1>4, <2>2, <3>2, <3>3, <3>4, <4>1
    <3>5. CASE ~found.is_set
      <4>1. /\ handler.rotation = ExtrinsicRotation(extrinsics[h].rpy)
            /\ handler.trans = extrinsics[h].xyz
        BY <1>4, <3>1, <3>5, HandlerType
      <4> HIDE DEF handler
      <4> QED BY <2>2, <3>2, <3>3, <4>1
    <3> QED BY <3>4, <3>5
  <2> QED BY <2>1, <2>2
<1> HIDE DEF handler
<1>6. points \in Seq(Points) /\ \A k \in DOMAIN points : Known(points[k], h)
  <2>1. points \in Seq(Points) /\ DOMAIN points = DOMAIN raw
    <3>1. handler \in LidarPubHandlers
      BY <1>5
    <3> QED BY <1>1, <3>1, PacketType
  <2>2. \A k \in DOMAIN raw : Known(points[k], h)
    <3>1. extrinsics[h] # None => /\ handler.rotation = ExtrinsicRotation(extrinsics[h].rpy)
                                  /\ handler.trans = extrinsics[h].xyz
      BY <1>5
    <3>2. phase = "run" /\ handler \in LidarPubHandlers
      BY <1>2, <1>5
    <3> QED BY <1>1, <3>1, <3>2, PacketKnown
  <2> QED BY <2>1, <2>2
<1> HIDE DEF points
<1>7. /\ new.is_set = handler.is_set /\ new.rotation = handler.rotation
      /\ new.trans = handler.trans /\ new.cloud = found.cloud \o points
  BY <1>5 DEF LidarPubHandlers
<1>8. \A k \in DOMAIN new.cloud : Known(new.cloud[k], h)
  <2>1. found.cloud \in Seq(Points)
    BY <1>4 DEF LidarPubHandlers
  <2> QED BY <1>4, <1>6, <1>7, <2>1
<1> HIDE DEF new
<1>9. UNCHANGED <<setup, extrinsics, map_index, devices, topics, outcomes>>
  BY <1>2 DEF mainVars
<1>10. /\ \A p, g : Known(p, g)' = Known(p, g)
       /\ \A frame, g : KnownFrame(frame, g)' = KnownFrame(frame, g)
       /\ \A p, frame : IsPointOf(p, frame)' = IsPointOf(p, frame)
  BY <1>9, SameKnown
<1>11. HandlersKnown'
  <2> SUFFICES ASSUME NEW g \in Handles, handlers'[g] # None
      PROVE  /\ handlers'[g].is_set = (extrinsics[g] # None)
             /\ extrinsics[g] # None =>
                  /\ handlers'[g].rotation = ExtrinsicRotation(extrinsics[g].rpy)
                  /\ handlers'[g].trans = extrinsics[g].xyz
             /\ \A k \in DOMAIN handlers'[g].cloud : Known(handlers'[g].cloud[k], g)
    BY <1>9, <1>10 DEF HandlersKnown
  <2>1. CASE g = h
    <3>1. handlers'[g] = new
      BY <1>2, <1>3, <2>1
    <3> QED BY <1>5, <1>7, <1>8, <2>1, <3>1
  <2>2. CASE g # h
    <3>1. handlers'[g] = handlers[g]
      BY <1>2, <1>3, <2>2
    <3> QED BY <3>1 DEF FlowInv, HandlersKnown
  <2> QED BY <2>1, <2>2
<1>12. QueuesKnown'
  BY <1>9, <1>10 DEF FlowInv, QueuesKnown
<1>13. TopicsNamed'
  BY <1>9 DEF FlowInv, TopicsNamed
<1>14. \A o \in outcomes : KnownOutcome(o)'
  BY <1>9, <1>10 DEF FlowInv, KnownOutcome
<1> QED BY <1>9, <1>11, <1>12, <1>13, <1>14 DEF FlowInv

LEMMA PublishFlow ==
  ASSUME BaseInv, FlowInv, NEW h \in Handles, PublishPointCloud(h)
  PROVE  FlowInv'
<1> DEFINE cloud == handlers[h].cloud
           frame == Frame(cloud)
<1>1. /\ handlers[h] \in LidarPubHandlers /\ cloud \in Seq(Points) \ {<<>>} /\ frame \in Frames
      /\ \A i \in Indices :
           /\ devices'[i].handle = devices[i].handle
           /\ \/ devices'[i].queue = devices[i].queue
              \/ i = map_index[h] /\ devices'[i].queue = Append(devices[i].queue, frame)
      /\ handlers' = [handlers EXCEPT ![h] = [handlers[h] EXCEPT !.cloud = <<>>]]
      /\ UNCHANGED <<setup, extrinsics, map_index, topics, outcomes>>
  BY StoredDevices DEF mainVars
<1>2. /\ \A p, g : Known(p, g)' = Known(p, g)
      /\ \A f, g : KnownFrame(f, g)' = KnownFrame(f, g)
      /\ \A p, f : IsPointOf(p, f)' = IsPointOf(p, f)
  BY <1>1, SameKnown
<1>3. KnownFrame(frame, h)
  <2>1. frame.points = cloud /\ frame.base_time = cloud[1].time
    BY DEF Frame
  <2>2. handlers[h] # None
    BY DEF PublishPointCloud
  <2> HIDE DEF frame
  <2> QED BY <2>1, <2>2 DEF FlowInv, HandlersKnown, KnownFrame
<1> HIDE DEF frame
<1>4. HandlersKnown'
  <2> SUFFICES ASSUME NEW g \in Handles, handlers'[g] # None
      PROVE  /\ handlers'[g].is_set = (extrinsics[g] # None)
             /\ extrinsics[g] # None =>
                  /\ handlers'[g].rotation = ExtrinsicRotation(extrinsics[g].rpy)
                  /\ handlers'[g].trans = extrinsics[g].xyz
             /\ \A k \in DOMAIN handlers'[g].cloud : Known(handlers'[g].cloud[k], g)
    BY <1>1, <1>2 DEF HandlersKnown
  <2>1. handlers \in [Handles -> LidarPubHandlers \cup {None}]
    BY DEF BaseInv, TypeInv, TypeOK
  <2>2. CASE g = h
    <3> DEFINE new == [handlers[h] EXCEPT !.cloud = <<>>]
    <3>1. handlers'[g] = new
      BY <1>1, <2>1, <2>2
    <3>2. /\ new.is_set = handlers[h].is_set /\ new.rotation = handlers[h].rotation
          /\ new.trans = handlers[h].trans /\ DOMAIN new.cloud = {}
      BY <1>1 DEF LidarPubHandlers
    <3>3. handlers[h] # None
      BY DEF PublishPointCloud
    <3> HIDE DEF new
    <3> QED BY <2>2, <3>1, <3>2, <3>3 DEF FlowInv, HandlersKnown
  <2>3. CASE g # h
    <3>1. handlers'[g] = handlers[g]
      BY <1>1, <2>1, <2>3
    <3> QED BY <3>1 DEF FlowInv, HandlersKnown
  <2> QED BY <2>2, <2>3
<1>5. QueuesKnown'
  <2> SUFFICES ASSUME NEW i \in Indices, NEW n \in DOMAIN devices'[i].queue
               PROVE  \E g \in Handles : map_index[g] = i /\ KnownFrame(devices'[i].queue[n], g)
    BY <1>1, <1>2 DEF QueuesKnown
  <2>1. devices[i].queue \in Seq(Frames)
    BY DEF BaseInv, TypeInv, TypeOK, LidarDevices
  <2>2. \A m \in DOMAIN devices[i].queue :
          \E g \in Handles : map_index[g] = i /\ KnownFrame(devices[i].queue[m], g)
    BY DEF FlowInv, QueuesKnown
  <2>3. CASE i = map_index[h] /\ devices'[i].queue = Append(devices[i].queue, frame)
    <3> DEFINE queue == devices[i].queue
               new == Append(queue, frame)
    <3>1. devices'[i].queue = new
      BY <2>3
    <3>2. \A m \in DOMAIN new : (m \in DOMAIN queue /\ new[m] = queue[m]) \/ new[m] = frame
      <4> HIDE DEF queue
      <4> QED BY <2>1 DEF queue
    <3> HIDE DEF new
    <3> QED BY <1>3, <2>2, <2>3, <3>1, <3>2
  <2>4. CASE devices'[i].queue = devices[i].queue
    BY <2>2, <2>4
  <2> QED BY <1>1, <2>3, <2>4
<1>6. TopicsNamed'
  BY <1>1 DEF FlowInv, TopicsNamed
<1>7. ASSUME NEW o \in outcomes PROVE KnownOutcome(o)'
  <2>1. PICK g \in Handles :
          /\ map_index[g] # None /\ KnownFrame(o.frame, g)
          /\ \A k \in DOMAIN o.points : IsPointOf(o.points[k], o.frame)
          /\ o.published /\ setup.multi_topic =>
               o.topic = <<"livox/lidar_", devices[map_index[g]].handle>>
    BY DEF FlowInv, KnownOutcome
  <2>2. map_index[g] \in Indices
    BY <2>1 DEF BaseInv, TypeInv, TypeOK
  <2>3. devices'[map_index'[g]].handle = devices[map_index[g]].handle
    BY <1>1, <2>2
  <2> QED BY <1>1, <1>2, <2>1, <2>3 DEF KnownOutcome
<1> QED BY <1>1, <1>4, <1>5, <1>6, <1>7 DEF FlowInv

LEMMA DistributeFlow ==
  ASSUME BaseInv, FlowInv, NEW i \in Indices, Distribute(i)
  PROVE  FlowInv'
<1> DEFINE queue == devices[i].queue
           frame == Head(queue)
           message == Message(frame)
           value == [frame |-> frame, published |-> message.accepted, points |-> message.points,
                     topic |-> IF message.accepted THEN topics'[PublisherOf(i)] ELSE None]
<1>1. /\ queue \in Seq(Frames) /\ queue # <<>> /\ frame \in Frames
      /\ message.accepted \in BOOLEAN /\ message.points \in Seq(Points)
      /\ topics' = IF message.accepted THEN GetCurrentPublisher(i) ELSE topics
      /\ outcomes' = outcomes \cup {value}
  BY Running, Distributed DEF BaseInv
<1>2. \A k \in DOMAIN message.points : IsPointOf(message.points[k], frame)
  <2> HIDE DEF frame
  <2> QED BY <1>1, Running, MessagePoints DEF BaseInv, TypeInv
<1>3. /\ \A j \in Indices : /\ devices'[j].handle = devices[j].handle
                            /\ devices'[j].queue = IF j = i THEN Tail(queue) ELSE devices[j].queue
      /\ UNCHANGED <<setup, extrinsics, map_index, handlers>>
  BY PolledDevices DEF mainVars
<1>4. /\ \A p, g : Known(p, g)' = Known(p, g)
      /\ \A f, g : KnownFrame(f, g)' = KnownFrame(f, g)
      /\ \A p, f : IsPointOf(p, f)' = IsPointOf(p, f)
  BY <1>3, SameKnown
<1>5. \A n \in DOMAIN queue : \E g \in Handles : map_index[g] = i /\ KnownFrame(queue[n], g)
  BY DEF FlowInv, QueuesKnown
<1>6. PICK h \in Handles : map_index[h] = i /\ KnownFrame(frame, h)
  <2> HIDE DEF queue
  <2>1. 1 \in DOMAIN queue /\ frame = queue[1]
    BY <1>1
  <2> QED BY <1>5, <2>1
<1> HIDE DEF message, frame
<1>7. HandlersKnown'
  BY <1>3, <1>4 DEF FlowInv, HandlersKnown
<1>8. QueuesKnown'
  <2> SUFFICES ASSUME NEW j \in Indices, NEW n \in DOMAIN devices'[j].queue
               PROVE  \E g \in Handles : map_index[g] = j /\ KnownFrame(devices'[j].queue[n], g)
    BY <1>3, <1>4 DEF QueuesKnown
  <2>1. CASE j = i
    <3>1. n \in DOMAIN Tail(queue)
      BY <1>3, <2>1
    <3>2. n + 1 \in DOMAIN queue /\ devices'[j].queue[n] = queue[n + 1]
      <4>1. devices'[j].queue = Tail(queue)
        BY <1>3, <2>1
      <4> HIDE DEF queue
      <4> QED BY <1>1, <3>1, <4>1
    <3> QED BY <1>5, <2>1, <3>2
  <2>2. CASE j # i
    BY <1>3, <2>2 DEF FlowInv, QueuesKnown
  <2> QED BY <2>1, <2>2
<1>9. ASSUME setup.multi_topic
      PROVE  /\ \A j \in Indices : topics'[j] # None =>
                  topics'[j] = <<"livox/lidar_", devices[j].handle>>
             /\ message.accepted => topics'[i] = <<"livox/lidar_", devices[i].handle>>
  <2>1. \A j \in Indices : topics[j] # None => topics[j] = <<"livox/lidar_", devices[j].handle>>
    BY <1>9 DEF FlowInv, TopicsNamed
  <2>2. PublisherOf(i) = i
    BY <1>9 DEF PublisherOf
  <2>3. CASE topics[i] # None
    BY <1>1, <2>1, <2>2, <2>3 DEF GetCurrentPublisher
  <2>4. CASE topics[i] = None
    <3>1. GetCurrentPublisher(i)
            = [topics EXCEPT ![i] = <<"livox/lidar_", devices[i].handle>>]
      BY <1>9, <2>2, <2>4 DEF GetCurrentPublisher
    <3>2. i \in Indices \cup {None} /\ topics \in [Indices \cup {None} -> TopicNames \cup {None}]
      BY DEF BaseInv, TypeInv, TypeOK
    <3> QED BY <1>1, <2>1, <3>1, <3>2
  <2> QED BY <2>3, <2>4
<1>10. TopicsNamed'
  BY <1>3, <1>9 DEF TopicsNamed
<1> PICK new : new = value
  OBVIOUS
<1>11. KnownOutcome(new)'
  <2>1. /\ new.frame = frame /\ new.points = message.points
        /\ new.published = message.accepted
        /\ new.topic = IF message.accepted THEN topics'[PublisherOf(i)] ELSE None
    BY <1>1
  <2>2. new.published /\ setup.multi_topic =>
          new.topic = <<"livox/lidar_", devices[map_index[h]].handle>>
    <3>1. ASSUME new.published, setup.multi_topic
          PROVE  new.topic = <<"livox/lidar_", devices[map_index[h]].handle>>
      <4>1. PublisherOf(i) = i
        BY <3>1 DEF PublisherOf
      <4> QED BY <1>6, <1>9, <2>1, <3>1, <4>1
    <3> QED BY <3>1
  <2>3. devices'[map_index'[h]].handle = devices[map_index[h]].handle /\ map_index[h] # None
    BY <1>3, <1>6, DataPathAssumption
  <2> QED BY <1>2, <1>3, <1>4, <1>6, <2>1, <2>2, <2>3 DEF KnownOutcome
<1>12. ASSUME NEW o \in outcomes PROVE KnownOutcome(o)'
  <2>1. PICK g \in Handles :
          /\ map_index[g] # None /\ KnownFrame(o.frame, g)
          /\ \A k \in DOMAIN o.points : IsPointOf(o.points[k], o.frame)
          /\ o.published /\ setup.multi_topic =>
               o.topic = <<"livox/lidar_", devices[map_index[g]].handle>>
    BY DEF FlowInv, KnownOutcome
  <2>2. map_index[g] \in Indices
    BY <2>1 DEF BaseInv, TypeInv, TypeOK
  <2>3. devices'[map_index'[g]].handle = devices[map_index[g]].handle
    BY <1>3, <2>2
  <2> QED BY <1>3, <1>4, <2>1, <2>3 DEF KnownOutcome
<1> HIDE DEF value
<1>13. \A o \in outcomes' : KnownOutcome(o)'
  BY <1>1, <1>11, <1>12
<1> QED BY <1>7, <1>8, <1>10, <1>13 DEF FlowInv

LEMMA QuietFlow ==
  ASSUME FlowInv, UNCHANGED vars
  PROVE  FlowInv'
<1>1. UNCHANGED <<setup, extrinsics, map_index, devices, handlers, topics, outcomes>>
  BY DEF vars
<1>2. /\ \A p, h : Known(p, h)' = Known(p, h)
      /\ \A frame, h : KnownFrame(frame, h)' = KnownFrame(frame, h)
      /\ \A p, frame : IsPointOf(p, frame)' = IsPointOf(p, frame)
  BY <1>1, SameKnown
<1>3. HandlersKnown'
  BY <1>1, <1>2 DEF FlowInv, HandlersKnown
<1>4. QueuesKnown'
  BY <1>1, <1>2 DEF FlowInv, QueuesKnown
<1>5. TopicsNamed'
  BY <1>1 DEF FlowInv, TopicsNamed
<1>6. \A o \in outcomes : KnownOutcome(o)'
  BY <1>1, <1>2 DEF FlowInv, KnownOutcome
<1> QED BY <1>1, <1>3, <1>4, <1>5, <1>6 DEF FlowInv

LEMMA FlowStep == BaseInv /\ StartInv /\ FlowInv /\ [Next]_vars => FlowInv'
<1> SUFFICES ASSUME BaseInv, StartInv, FlowInv, [Next]_vars PROVE FlowInv'
  OBVIOUS
<1>1. ASSUME \/ LoadParameters \/ ParseUserConfigs \/ FillDevice \/ SkipDevice
             \/ SetLidarPubHandle
      PROVE  FlowInv'
  BY <1>1, StartFlow
<1>2. ASSUME NEW h \in Handles, LidarInfoChange(h) PROVE FlowInv'
  BY <1>2, AnnouncedFlow
<1>3. ASSUME NEW h \in Handles, SetSampling(h) PROVE FlowInv'
  BY <1>3, SampledFlow
<1>4. ASSUME NEW h \in Handles, NEW kind \in setup.kinds, NEW raw \in setup.clouds,
             NEW stamp \in setup.stamps, RawDataProcess(h, kind, raw, stamp)
      PROVE  FlowInv'
  BY <1>4, RawDataFlow
<1>5. ASSUME NEW h \in Handles, PublishPointCloud(h) PROVE FlowInv'
  BY <1>5, PublishFlow
<1>6. ASSUME NEW i \in Indices, Distribute(i) PROVE FlowInv'
  BY <1>6, DistributeFlow
<1>7. ASSUME UNCHANGED vars PROVE FlowInv'
  BY <1>7, QuietFlow
<1> QED BY <1>1, <1>2, <1>3, <1>4, <1>5, <1>6, <1>7 DEF Next

LEMMA InitFlow == Init => FlowInv
<1> SUFFICES ASSUME Init PROVE FlowInv
  OBVIOUS
<1>1. /\ \A h \in Handles : handlers[h] = None
      /\ \A i \in Indices : devices[i].queue = <<>> /\ topics[i] = None
      /\ outcomes = {}
  BY DEF Init, NoDevice
<1> QED BY <1>1 DEF FlowInv, HandlersKnown, QueuesKnown, TopicsNamed

LEMMA FlowCorrect == Spec => []FlowInv
BY InitBase, BaseStep, InitStart, StartStep, InitFlow, FlowStep, PTL DEF Spec

-----------------------------------------------------------------------------
(* What is published. *)

(* A stamp is its distance to the base time, if that is in range. *)
LEMMA OffsetInRange ==
  ASSUME NEW first \in Int, NEW n \in Nat \ {0}, NEW stamp \in first .. first + n - 1
  PROVE  first + ((stamp - first) % n) = stamp
<1> DEFINE a == stamp - first
<1>1. a \in 0 .. n - 1
  OBVIOUS
<1>2. a % n = a
  <2> HIDE DEF a
  <2> QED BY <1>1
<1> QED BY <1>2

LEMMA PublishedPoints ==
  ASSUME BaseInv, FlowInv, NEW o \in Published
  PROVE  /\ o \in outcomes /\ o.published /\ phase = "run" /\ setup \in Setups
         /\ o.frame \in Frames
         /\ \E h \in Handles :
              /\ map_index[h] \in Indices /\ map_index[h] # None
              /\ setup.multi_topic => o.topic = <<"livox/lidar_", devices[map_index[h]].handle>>
              /\ o.frame.base_time = o.frame.points[1].time
              /\ \A k \in DOMAIN o.frame.points : /\ Known(o.frame.points[k], h)
                                                  /\ o.frame.points[k] \in Points
              /\ 1 \in DOMAIN o.frame.points
              /\ \A p \in PointsOf(o.points) : IsPointOf(p, o.frame)
<1>1. o \in outcomes /\ o.published
  BY DEF Published
<1>2. phase = "run" /\ setup \in Setups /\ o.frame \in Frames
  BY <1>1 DEF BaseInv, TypeInv, TypeOK, Idle
<1>3. PICK h \in Handles :
        /\ map_index[h] # None /\ KnownFrame(o.frame, h)
        /\ \A k \in DOMAIN o.points : IsPointOf(o.points[k], o.frame)
        /\ o.published /\ setup.multi_topic =>
             o.topic = <<"livox/lidar_", devices[map_index[h]].handle>>
  BY <1>1 DEF FlowInv, KnownOutcome
<1>4. map_index[h] \in Indices
  BY <1>3 DEF BaseInv, TypeInv, TypeOK
<1>5. 1 \in DOMAIN o.frame.points /\ \A k \in DOMAIN o.frame.points : o.frame.points[k] \in Points
  <2>1. o.frame.points \in Seq(Points) \ {<<>>}
    BY <1>2 DEF Frames
  <2> QED BY <2>1
<1>6. \A p \in PointsOf(o.points) : IsPointOf(p, o.frame)
  BY <1>3 DEF PointsOf
<1> QED BY <1>1, <1>2, <1>3, <1>4, <1>5, <1>6 DEF KnownFrame

(* The stamp of a published point is that of its packet, as a double or as an offset. *)
LEMMA PublishedTimes ==
  ASSUME BaseInv, FlowInv, NEW o \in Published, NEW p \in PointsOf(o.points)
  PROVE  LET first == o.frame.points[1].from.stamp
         IN /\ p.from.stamp \in Nat /\ first \in Nat /\ o.frame.base_time = first
            /\ p.time = IF setup.xfer_format = PointCloud2 THEN Double(p.from.stamp)
                        ELSE (p.from.stamp - first) % OffsetRange
<1>1. PICK h \in Handles :
        /\ o.frame.base_time = o.frame.points[1].time
        /\ \A k \in DOMAIN o.frame.points : /\ Known(o.frame.points[k], h)
                                            /\ o.frame.points[k] \in Points
        /\ 1 \in DOMAIN o.frame.points
        /\ IsPointOf(p, o.frame)
  BY PublishedPoints
<1>2. PICK j \in DOMAIN o.frame.points :
        /\ p.from = o.frame.points[j].from
        /\ p.time = IF setup.xfer_format = PointCloud2 THEN Double(o.frame.points[j].time)
                    ELSE (o.frame.points[j].time - o.frame.base_time) % OffsetRange
  BY <1>1 DEF IsPointOf
<1>3. o.frame.points[j].time = p.from.stamp
  BY <1>1, <1>2 DEF Known
<1>4. o.frame.base_time = o.frame.points[1].from.stamp
  BY <1>1 DEF Known
<1>5. p.from.stamp \in Nat /\ o.frame.points[1].from.stamp \in Nat
  BY <1>1, <1>2 DEF Points
<1> QED BY <1>2, <1>3, <1>4, <1>5

(* What a subscriber of CustomMsg makes of timebase and offset is the stamp of the
   packet, for every lidar, every filter and every frame whose points are within the
   range of the offset; the doubles of PointCloud2 are off by at most one in
   MantissaRange and in the order of the stamps (lddc.cpp:614-624, 657-661, 689). *)
THEOREM TimesAreRecovered == Spec => []TimesRecovered
<1>1. BaseInv /\ FlowInv => TimesRecovered
  <2> SUFFICES ASSUME BaseInv, FlowInv, NEW o \in Published, NEW p \in PointsOf(o.points)
      PROVE  IF setup.xfer_format = PointCloud2
             THEN /\ Abs(p.time - p.from.stamp) * MantissaRange <= p.from.stamp
                  /\ \A q \in PointsOf(o.points) :
                       p.from.stamp <= q.from.stamp => p.time <= q.time
             ELSE LET first == o.frame.points[1].from.stamp
                  IN p.from.stamp \in first .. first + OffsetRange - 1
                       => o.frame.base_time + p.time = p.from.stamp
    BY DEF TimesRecovered
  <2>1. CASE setup.xfer_format = PointCloud2
    <3>1. \A q \in PointsOf(o.points) : q.from.stamp \in Nat /\ q.time = Double(q.from.stamp)
      BY <2>1, PublishedTimes
    <3>2. Abs(p.time - p.from.stamp) * MantissaRange <= p.from.stamp
      BY <3>1, DoubleIsClose
    <3>3. \A q \in PointsOf(o.points) : p.from.stamp <= q.from.stamp => p.time <= q.time
      BY <3>1, DoubleKeepsOrder
    <3> QED BY <2>1, <3>2, <3>3
  <2>2. CASE setup.xfer_format # PointCloud2
    <3> DEFINE first == o.frame.points[1].from.stamp
    <3>1. /\ first \in Int /\ o.frame.base_time = first
          /\ p.time = (p.from.stamp - first) % OffsetRange
      BY <2>2, PublishedTimes
    <3> HIDE DEF first
    <3>2. p.from.stamp \in first .. first + OffsetRange - 1 => first + p.time = p.from.stamp
      BY <3>1, OffsetInRange, DataPathAssumption
    <3> QED BY <2>2, <3>1, <3>2 DEF first
  <2> QED BY <2>1, <2>2
<1> QED BY <1>1, BaseCorrect, FlowCorrect, PTL

(* Every point that is published of a lidar of the configuration file is where the
   file says, for any file, any number of lidars and any packets. *)
THEOREM PointsAreCompensated == Spec => []PointsCompensated
<1>1. BaseInv /\ FlowInv => PointsCompensated
  <2> SUFFICES ASSUME BaseInv, FlowInv, NEW o \in Published, NEW p \in PointsOf(o.points)
               PROVE  Compensated(p)
    BY DEF PointsCompensated, Compensated
  <2>1. PICK h \in Handles :
          /\ \A k \in DOMAIN o.frame.points : Known(o.frame.points[k], h)
          /\ IsPointOf(p, o.frame)
    BY PublishedPoints
  <2>2. PICK j \in DOMAIN o.frame.points :
          p.at = o.frame.points[j].at /\ p.from = o.frame.points[j].from
    BY <2>1 DEF IsPointOf
  <2>3. Compensated(o.frame.points[j])
    BY <2>1 DEF Known
  <2> QED BY <2>2, <2>3 DEF Compensated
<1> QED BY <1>1, BaseCorrect, FlowCorrect, PTL

(* The topic of a lidar of the configuration file has its points and no others, in
   whatever order lidars are announced and frames published. *)
THEOREM TopicsAreOwn == Spec => []OwnTopic
<1>1. BaseInv /\ StartInv /\ FlowInv => OwnTopic
  <2> SUFFICES ASSUME BaseInv, StartInv, FlowInv, NEW o \in Published, NEW p \in PointsOf(o.points)
      PROVE  /\ \A q \in PointsOf(o.points) : p.from.handle = q.from.handle
             /\ setup.multi_topic =>
                  \A h \in Handles :
                    Placed(h) => (o.topic = <<"livox/lidar_", h>> <=> p.from.handle = h)
    BY DEF OwnTopic
  <2>1. PICK g \in Handles :
          /\ map_index[g] \in Indices /\ map_index[g] # None
          /\ setup.multi_topic => o.topic = <<"livox/lidar_", devices[map_index[g]].handle>>
          /\ \A k \in DOMAIN o.frame.points : Known(o.frame.points[k], g)
          /\ \A q \in PointsOf(o.points) : IsPointOf(q, o.frame)
    BY PublishedPoints
  <2>2. \A q \in PointsOf(o.points) : q.from.handle = g
    BY <2>1 DEF IsPointOf, Known
  <2>3. ASSUME setup.multi_topic, NEW h \in Handles, Placed(h)
        PROVE  o.topic = <<"livox/lidar_", h>> <=> g = h
    <3>1. phase = "run"
      BY PublishedPoints
    <3>2. map_index[h] # None /\ devices[map_index[h]].handle = h
      BY <2>3, <3>1, PlacedIsFilled DEF StartInv, Registered
    <3> DEFINE handle == devices[map_index[g]].handle
    <3>3. o.topic = <<"livox/lidar_", handle>>
      BY <2>1, <2>3
    <3>4. handle = h => g = h
      <4>1. h # 0
        BY DataPathAssumption
      <4>2. ASSUME handle = h PROVE map_index[h] = map_index[g]
        BY <2>1, <4>1, <4>2 DEF StartInv, Registered
      <4> QED BY <2>1, <4>2 DEF StartInv, Registered
    <3>5. g = h => handle = h
      BY <3>2
    <3> HIDE DEF handle
    <3>6. o.topic = <<"livox/lidar_", h>> <=> handle = h
      BY <3>3
    <3> QED BY <3>4, <3>5, <3>6
  <2> QED BY <2>2, <2>3
<1> QED BY <1>1, BaseCorrect, StartCorrect, FlowCorrect, PTL

-----------------------------------------------------------------------------
(* What the self filter does to a frame. *)

(* The filter looks at the places of the points and not at their stamps. *)
LEMMA FilledOutside ==
  ASSUME NEW frame \in Frames, NEW params
  PROVE  LET filled == FillPointsToCustomMsg(frame)
         IN /\ Len(Outside(filled, params)) = Len(Outside(frame.points, params))
            /\ Origins(Outside(filled, params)) = Origins(Outside(frame.points, params))
            /\ Len(filled) = Len(frame.points)
            /\ Origins(filled) = Origins(frame.points)
<1> DEFINE filled == FillPointsToCustomMsg(frame)
           points == frame.points
           ks == {k \in DOMAIN points : ~IsBody(points[k], params) /\ ~IsCropped(points[k], params)}
           a == Subsequence(filled, ks)
           b == Subsequence(points, ks)
           places == Ascending(Len(points), ks)
<1>1. /\ filled \in Seq(Points) /\ points \in Seq(Points)
      /\ DOMAIN filled = DOMAIN points /\ Len(filled) = Len(points)
      /\ \A k \in DOMAIN points : filled[k].at = points[k].at /\ filled[k].from = points[k].from
  BY FilledPoints DEF Frames
<1> HIDE DEF filled, points
<1>2. Outside(filled, params) = a /\ Outside(points, params) = b
  <2>1. \A k \in DOMAIN points : InVehicle(filled[k], params) = InVehicle(points[k], params)
    BY <1>1 DEF InVehicle
  <2>2. \A k \in DOMAIN points : /\ IsBody(filled[k], params) <=> IsBody(points[k], params)
                                 /\ IsCropped(filled[k], params) <=> IsCropped(points[k], params)
    BY <2>1 DEF IsBody, IsCropped
  <2>3. ks = {k \in DOMAIN filled : ~IsBody(filled[k], params) /\ ~IsCropped(filled[k], params)}
    BY <1>1, <2>2
  <2> QED BY <2>3 DEF Outside
<1> HIDE DEF ks
<1>3. Passes(a, places, filled, ks) /\ Passes(b, places, points, ks)
  BY <1>1, SubsequencePasses
<1> HIDE DEF a, b, places
<1>4. Len(a) = Len(b) /\ DOMAIN a = DOMAIN b
  BY <1>3 DEF Passes
<1>5. \A k \in DOMAIN a : a[k].from = b[k].from
  BY <1>1, <1>3 DEF Passes
<1>6. Origins(a) = Origins(b)
  BY <1>4, <1>5 DEF Origins
<1>7. Origins(filled) = Origins(points)
  BY <1>1 DEF Origins
<1> QED BY <1>1, <1>2, <1>4, <1>6, <1>7 DEF filled, points

Exact(o) ==
  LET wanted == IF FilterOn THEN Outside(o.frame.points, setup.filter) ELSE o.frame.points
  IN /\ o.published <=>
          (FilterOn => /\ Len(o.frame.points) >= setup.filter.min_input_points
                       /\ Len(wanted) >= setup.filter.min_output_points)
     /\ o.published => Origins(o.points) = Origins(wanted)

LEMMA MessageExact ==
  ASSUME setup \in Setups, filter = LoadSelfFilterConfig(setup.filter), NEW frame \in Frames,
         NEW o, o.frame = frame, o.published = Message(frame).accepted,
         o.points = Message(frame).points
  PROVE  Exact(o)
<1> DEFINE params == setup.filter
           filled == FillPointsToCustomMsg(frame)
           message == Message(frame)
<1>1. params \in FilterParams /\ frame.points \in Seq(Points)
      /\ setup.xfer_format \in {PointCloud2, CustomMsg}
  BY SetupFacts DEF Frames
<1>2. CASE setup.xfer_format = PointCloud2
  <2>1. ~FilterOn
    BY <1>2, KindNames DEF FilterOn
  <2>2. message = InitPointcloud2Msg(frame)
    BY <1>2 DEF Message
  <2> HIDE DEF message
  <2>3. message.accepted /\ Origins(message.points) = Origins(frame.points)
    BY <2>2, CastPoints DEF Origins
  <2> QED BY <2>1, <2>3 DEF Exact, message
<1>3. CASE setup.xfer_format = CustomMsg
  <2>1. FilterOn <=> FilterAsked(params)
    BY <1>3 DEF FilterOn
  <2>2. message = ApplySelfFilter(filled, LoadSelfFilterConfig(params))
    BY <1>3, KindNames DEF Message
  <2>3. filled \in Seq(Points) /\ \A p \in Points : p.at \in Vectors
    BY FilledPoints DEF Points
  <2>4. /\ Len(Outside(filled, params)) = Len(Outside(frame.points, params))
        /\ Origins(Outside(filled, params)) = Origins(Outside(frame.points, params))
        /\ Len(filled) = Len(frame.points)
        /\ Origins(filled) = Origins(frame.points)
    BY FilledOutside
  <2> HIDE DEF message, filled
  <2> DEFINE wanted == IF FilterAsked(params) THEN Outside(filled, params) ELSE filled
  <2>5. /\ message.accepted <=>
             (FilterAsked(params) => /\ Len(filled) >= params.min_input_points
                                     /\ Len(wanted) >= params.min_output_points)
        /\ message.accepted => message.points = wanted
    BY <1>1, <2>2, <2>3, SelfFilterExact
  <2> HIDE DEF params
  <2>6. CASE FilterAsked(params)
    BY <2>1, <2>4, <2>5, <2>6 DEF Exact, message, params
  <2>7. CASE ~FilterAsked(params)
    BY <2>1, <2>4, <2>5, <2>7 DEF Exact, message, params
  <2> QED BY <2>6, <2>7
<1> QED BY <1>1, <1>2, <1>3

LEMMA ExactStep == BaseInv /\ FilterExact /\ [Next]_vars => FilterExact'
<1> SUFFICES ASSUME BaseInv, FilterExact, [Next]_vars PROVE FilterExact'
  OBVIOUS
<1>1. FilterExact <=> \A o \in outcomes : Exact(o)
  BY DEF FilterExact, Exact
<1>2. FilterExact' <=> \A o \in outcomes' : Exact(o)'
  BY DEF FilterExact, Exact
<1>3. ASSUME setup' = setup PROVE \A o : Exact(o)' = Exact(o)
  BY <1>3 DEF Exact, FilterOn
<1>4. ASSUME UNCHANGED <<setup, outcomes>> PROVE FilterExact'
  BY <1>1, <1>2, <1>3, <1>4
<1>5. ASSUME NEW i \in Indices, Distribute(i) PROVE FilterExact'
  <2> DEFINE frame == Head(devices[i].queue)
             message == Message(frame)
             value == [frame |-> frame, published |-> message.accepted,
                       points |-> message.points,
                       topic |-> IF message.accepted THEN topics'[PublisherOf(i)] ELSE None]
  <2>1. /\ frame \in Frames /\ outcomes' = outcomes \cup {value} /\ setup' = setup
        /\ setup \in Setups /\ filter = LoadSelfFilterConfig(setup.filter)
    BY <1>5, Running, Distributed DEF BaseInv, TypeInv, mainVars
  <2>2. /\ value.frame = frame /\ value.published = message.accepted
        /\ value.points = message.points
    OBVIOUS
  <2> HIDE DEF frame, message, value
  <2>3. Exact(value)
    BY <2>1, <2>2, MessageExact DEF message
  <2>4. \A o \in outcomes' : Exact(o)
    BY <1>1, <2>1, <2>3
  <2> QED BY <1>2, <1>3, <2>1, <2>4
<1>6. ASSUME \/ LoadParameters \/ ParseUserConfigs \/ FillDevice \/ SkipDevice
             \/ SetLidarPubHandle
      PROVE  FilterExact'
  BY <1>4, <1>6 DEF LoadParameters, ParseUserConfigs, FillDevice, SkipDevice,
                    SetLidarPubHandle, threads
<1>7. ASSUME NEW h \in Handles, LidarInfoChange(h) \/ SetSampling(h) \/ PublishPointCloud(h)
      PROVE  FilterExact'
  BY <1>4, <1>7 DEF LidarInfoChange, SetSampling, PublishPointCloud, mainVars, threads
<1>8. ASSUME NEW h \in Handles, NEW kind \in setup.kinds, NEW raw \in setup.clouds,
             NEW stamp \in setup.stamps, RawDataProcess(h, kind, raw, stamp)
      PROVE  FilterExact'
  BY <1>4, <1>8 DEF RawDataProcess, mainVars
<1>9. ASSUME UNCHANGED vars PROVE FilterExact'
  BY <1>4, <1>9 DEF vars
<1> QED BY <1>5, <1>6, <1>7, <1>8, <1>9 DEF Next

(* For any boxes, crop, poses and limits, and for any frames, the messages have the
   points outside of the vehicle and inside of the crop, in their order. *)
THEOREM FilterIsExact == Spec => []FilterExact
<1>1. Init => FilterExact
  BY DEF Init, FilterExact
<1> QED BY <1>1, BaseCorrect, ExactStep, PTL DEF Spec

-----------------------------------------------------------------------------
(* The registry. *)

LEMMA RegistryStep == BaseInv /\ [Next]_vars => [Registry!Next]_map_index
<1> SUFFICES ASSUME BaseInv, [Next]_vars PROVE [Registry!Next]_map_index
  OBVIOUS
<1>1. ASSUME NEW h \in Handles, GetFreeIndex(h) # None,
             map_index' = [map_index EXCEPT ![h] = GetFreeIndex(h)]
      PROVE  [Registry!Next]_map_index
  <2>1. map_index \in [Handles -> Indices \cup {None}]
    BY DEF BaseInv, TypeInv, TypeOK
  <2>2. CASE map_index[h] # None
    <3>1. GetFreeIndex(h) = map_index[h]
      BY <2>1, <2>2, FreeIndex
    <3>2. map_index' = map_index
      BY <1>1, <2>1, <3>1
    <3> QED BY <3>2
  <2>3. CASE map_index[h] = None
    <3>1. GetFreeIndex(h) \in FreeIndices
      BY <1>1, <2>1, <2>3, FreeIndex
    <3>2. GetFreeIndex(h) \in Indices /\ \A g \in Handles : map_index[g] # GetFreeIndex(h)
      BY <3>1 DEF FreeIndices
    <3>3. Registry!Assign(h, GetFreeIndex(h))
      BY <1>1, <2>3, <3>2 DEF Registry!Assign
    <3> QED BY <3>2, <3>3 DEF Registry!Next
  <2> QED BY <2>2, <2>3
<1>2. CASE FillDevice
  <2>1. Head(user_configs).handle \in Handles
    BY <1>2, FilledDevices DEF BaseInv
  <2> QED BY <1>1, <1>2, <2>1 DEF FillDevice
<1>3. ASSUME NEW h \in Handles, LidarInfoChange(h) PROVE [Registry!Next]_map_index
  BY <1>1, <1>3 DEF LidarInfoChange
<1>4. ASSUME UNCHANGED map_index PROVE [Registry!Next]_map_index
  BY <1>4
<1>5. ASSUME LoadParameters \/ ParseUserConfigs \/ SkipDevice \/ SetLidarPubHandle
      PROVE  [Registry!Next]_map_index
  BY <1>4, <1>5 DEF LoadParameters, ParseUserConfigs, SkipDevice, SetLidarPubHandle
<1>6. ASSUME NEW h \in Handles, SetSampling(h) \/ PublishPointCloud(h)
      PROVE  [Registry!Next]_map_index
  BY <1>4, <1>6 DEF SetSampling, PublishPointCloud
<1>7. ASSUME NEW h \in Handles, NEW kind \in setup.kinds, NEW raw \in setup.clouds,
             NEW stamp \in setup.stamps, RawDataProcess(h, kind, raw, stamp)
      PROVE  [Registry!Next]_map_index
  BY <1>4, <1>7 DEF RawDataProcess
<1>8. ASSUME NEW i \in Indices, Distribute(i) PROVE [Registry!Next]_map_index
  BY <1>4, <1>8 DEF Distribute
<1>9. ASSUME UNCHANGED vars PROVE [Registry!Next]_map_index
  BY <1>4, <1>9 DEF vars
<1> QED BY <1>2, <1>3, <1>5, <1>6, <1>7, <1>8, <1>9 DEF Next

(* Start-up and announcements use the index cache as the registry that it implements:
   no lidar has two indices, whatever the file repeats. *)
THEOREM RegistryIsKept == Spec => KeepsRegistry
<1>1. Init => Registry!Init
  BY DEF Init, Registry!Init
<1> QED BY <1>1, BaseCorrect, RegistryStep, PTL DEF Spec, KeepsRegistry, Registry!Spec

=============================================================================
