# Verification of livox_ros_driver2_filtered

TLA+ models of the Livox MID360 driver for ROS 2, model-checked with TLC and, where
it says so, proved with TLAPS. The reference is the code under `src/src`; line numbers
below are those of its files.

## The system

A driver process talks to lidars through the Livox SDK and publishes frames of points
and IMU samples to ROS topics. Five threads matter:

1. the **SDK's data thread**, which delivers packets
   (`PubHandler::OnLivoxLidarPointCloudCallback`);
2. the **SDK's command thread(s)**, which announce lidars and deliver the answers to
   configuration requests (`LivoxLidarCallback`);
3. the **processing thread** (`PubHandler::RawDataProcess`), which turns packets into
   frames and pushes them into one ring per lidar;
4. the **point-cloud poll thread** and
5. the **IMU poll thread** (`DriverNode::...PollThread`), which sleep on a semaphore
   each and publish what is queued.

```
 SDK data --packets--> raw_packet_queue_ --> processing thread --frames--> Ldq ring --> pcd poll thread --> stamp filter --> topic
     |                                          (PubHandler)      + pcd_semaphore_        (Lddc)
     +--- IMU packets --> StorageImuData --> list + imu_semaphore_ ------------------> imu poll thread --> stamp filter --> topic
 SDK commands <--> LivoxLidarCallback --> connect_state (tested by both poll threads), CacheIndex
```

### Inventory

| Component | State | Operations | Hard part | What makes it correct |
|---|---|---|---|---|
| Frame queue, `comm/ldq.*` | slots, `rd_idx`, `wr_idx`, `mask` | `InitQueue` on the first push, `QueuePushAny`, `QueuePop`, full/empty tests | two threads, no lock, indices that wrap | no slot is shared; FIFO of whole frames; refuses only when full |
| Device store, `lds.*`, `semaphore.*`, `lidar_imu_data_queue.*` | per-lidar queues, `connect_state`, two counting semaphores, exit flag | `PushLidarData`, `StorageImuData`, `Signal`, `Wait` | `GetCount()` is read without the mutex | no lost wake-up; count at most one; everything is published |
| Distribution, `lddc.cpp:406-554`, `driver_node.*`, `livox_ros_driver2.cpp` | loop position, exit promise | `Distribute...Data`, `Polling...Data`, `Publish...`, `~DriverNode` | lidars that are not sampling, exit, unsupported format | backlog drains; threads join |
| Configuration, `call_back/livox_lidar_callback.*`, `lds_lidar.*` | `set_bits`, `connect_state`, `config_mutex_` | announcement, seven kinds of answer | answers race with the handler; loss, retry, refusal, reboot | sampling only when configured; configured in the end |
| Index registry, `comm/cache_index.*` | map of handles, table of used indices | `GetFreeIndex`, `GetIndex`, `LvxGetIndex`, `ResetIndex` | two critical sections, lookups without the lock | one index per handle, one handle per index |
| Packet assembly, `comm/pub_handler.*` | packet queue, point clouds, frame clock, sync flag | reception, `RawDataProcess`, `CheckTimer`, `Uninit` | two clocks that alternate, `uint64_t` differences, exit without notify | each packet once and in order; frames on time; thread joins |
| Stamp filter, `lddc.cpp:695-817` | newest stamps, drop counters | `AcceptCustomMsgTimestamp`, `AcceptImuTimestamp` | memory shared by all lidars, counters without a lock | output in order up to the tolerance; only disorder is dropped |
| Self filter and messages, rest of `lddc.cpp` | parameters, publishers | loading of the parameters, box and crop tests, `PublishCustomPointcloud`, `PublishPointcloud2`, `GetCurrentPublisher` | two hand-written matrices, one box that is wrong, offsets of 32 bits | the filter takes the body and nothing else; each lidar has its topic; stamps can be recovered as far as the format has room for them |
| Start-up, `lds_lidar.cpp`, `livox_ros_driver2.cpp:140-210` | devices, extrinsics, rates | `LoadParameters`, `InitLivoxLidar`, `SetLidarPubHandle` | entries that are repeated or too many, frequencies out of range | each lidar gets its own parameters; intervals and ring sizes are sound |
| Configuration files, `parse_cfg_file/*` | none | JSON to records with defaults | fields that are left out | an absent field means what the code makes of it |
| Sizes, `comm.cpp`, `ldq.h` | none | `CalculatePacketQueueSize`, `RoundupPowerOf2` | boundary values | rings of a power of two that hold a second of frames |
| Livox SDK, ROS, lidars, network | external | | loss, reboot, any timing | environment of the models |

`PROJECT.json` lists the hazards at their lines and which property covers each.

## Modules

**FrameChannel** is the abstract specification of a frame queue: a bounded FIFO channel
that accepts a frame, hands over the oldest one, or refuses a frame when it is full.

**Ldq** is the ring. The producer goes through `PushLidarData`: test of the pointer,
`AllocateStorage`, `ResetIndices`, `SetMask` (the order of `InitQueue`), `TestFull`,
`PushHead`, `PushBody`, `AdvanceWrite`. The consumer goes through `PollQueue`,
`PrePopHead`, `PrePopBody`, `PopUpdate`. A slot has a head (base time and number of
points) and a body (the points) so that a torn frame can be seen. Indices count modulo
`IdxMod`, which is 2^32 in the code. `Ldq` implements `FrameChannel`: the channel's
queue is the content of the slots from `rd_idx` to `wr_idx`.

**Delivery** is the wake-up protocol around the queues, for frames (`path = "pcd"`) and
IMU samples (`"imu"`). A queue is its number of entries. Each load or store of shared
state by one side is a step: push, test of emptiness, test of the count, signal; wait,
scan of the lidars, outer and inner loop, test of the exit promise. `delayed` says
whether the processor has a store buffer: an x86 store of `wr_idx` may become visible
after the following load of the count. `path` and `delayed` never change; the constants
`Paths` and `StoreBuffers` say from which values they are chosen. `early` is a history
variable that marks entries queued before their lidar was sampling.

**LidarConfig** is the configuration of lidars: the announcement handler with its
lock, and one action per outcome of an answer for all kinds of request. The lidar and
the network are external actions: accept, accept with the answer lost, refuse, lose,
reboot. A parameter's bit is an element of `set_bits`.

**IndexRegistry** is the abstract registry of lidars: an index is assigned in one step and
never taken back. **CacheIndex** is the code: `GetFreeIndex` in two critical sections, its
insertion into the map in two steps, `GetIndex` with a lookup outside of the mutex and a
read under it. A lookup that meets an insertion may miss a key (`NotFound`).

**StampFilter** is what the two poll threads drop by stamp. The increment of a shared
counter is a load and a store.

**PubHandler** is the way from packets to frames. A packet stands for its points; the
action names are those of the functions or statements. The frame clocks are
`CheckTimerSync` (lidar stamps) and `CheckTimerFirst`/`CheckTimerHost` (host clock). A
frame is the set of its `LidarPoint`s.

**Geometry** has the two rotation matrices, `TransformPoint` and `PointInBox` as the code
computes them, and what they are meant to be: turns about the fixed axes. **SelfFilter**
has the parameters of the self filter and `ApplySelfFilter`, as operators, and what the
parameters ask for in their own terms: which points are body, which are cropped, and what
is left of a cloud (`Outside`). A loop over a sequence that passes some elements on is
`Subsequence`, the elements at an ascending list of places.

**DataPath** composes the sequential parts: the main thread loads the parameters, parses the
configuration file and fills in the devices; then the processing thread turns packets
into frames with the extrinsics of their lidar, the command thread announces lidars, and
the poll thread filters and publishes. The protocols that have a module of their own
(frame clock, ring, wake-up, registry, stamp filter) are atomic steps in it, whose
interleaving is free. Pushing a frame makes the ring of its lidar when there is none, and
drops the frame when the ring is full (`StoragePointData`). The table of indices is the
registry that `CacheIndex` implements: `Registry` is an instance of `IndexRegistry`, and
`KeepsRegistry` says that each step of start-up and announcements is one of its steps. A
point keeps where it comes from, so that what is published can be compared with what a
lidar sent and the configuration file asked for. `Double` is the cast of a stamp to the
field of a PointCloud2 message, to the nearest double and to the even one of two;
`Spacing` is how far apart doubles are there. `setup` holds the parameters, the file
and the lidars, and never changes.

`MC...` modules and `.cfg` files are the instances for TLC; `...Proofs` modules hold the
theorems. Operators called `X_Something` next to an operator `X` are mutated forms, which
show that a property of a run notices a plausible bug in `X`.

How the modules meet: `PubHandler` hands frames to `Lds::StoragePointData`; their
storage is `Ldq`, the wake-up of the poll thread is `Delivery`, which takes from
`LidarConfig` only the fact that a lidar becomes sampling at some time; `CacheIndex` says
to which device a handle belongs; what the poll thread takes goes through `StampFilter`.
The interfaces are narrow (a push, an index, a state that only goes from off to sampling,
a pop), so that each protocol is checked by itself, and `DataPath` checks what the data
is after going through all of them.

## Runs

| Run | Checks | Bounds |
|---|---|---|
| `ring` | `SlotsDisjoint`, `RingInv`, `ImplementsChannel` | 4 slots, 2 frames, indices modulo 12: full, empty, wrapped slots and wrapped indices all occur; three rounds per index period, so slot and index wrap at different times |
| `delivery` | `NoLostWakeup`, its inductive form `EveryOwedCovered`, `CountBinary`, `EntriesPublished`, `BacklogPublished`, `ExitUnderTraffic` | 2 lidars, queues of 2 entries, both paths, both formats, stores at once or delayed; on the IMU path the bound on the lists only limits the exploration. Two entries per lidar are enough for a full ring, for an early and an owed entry at once, and for a push between every two steps of the poll thread |
| `config_safety` | `SamplingConfigured`, `BitsOutstanding` | 2 lidars, 2 parameters, every configuration, one index: the declared lidar, or the one announced first, gets it; a reboot each, so that a lidar that is not declared is announced a second time and then configured |
| `config_live` | `ReadyEventually`, `Reconfigured` | 1 lidar, declared or not, with a parameter, work mode and IMU; a reboot |
| `stamp_filter` | `PublishedInOrder`, `CountsBounded` | both threads, 3 entries each, stamps 0..3 with a tolerance of 1, so that two small regressions can add up; the order is one of entries, whichever lidar they come from, so that one lidar with any stamps is enough |
| `stamp_topics` | `DroppedOutOfOrder`, **violated** | 2 lidars whose own stamps are in order, a topic each |
| `index` | `IndexInjective`, `AnswersConsistent`, `NoIndexLost`, `ImplementsRegistry` | 3 lidars for 2 places, so that the table fills up and refuses; a thread that allocates and two that only look up |
| `data_path` | `PointsCompensated`, `FilterExact`, `OwnTopic`, `TimesRecovered`, `RatesSound`, `KeepsRegistry` | the set-ups of `MCDataPath`, see below |
| `translation_units` | `TranslationInMm`, **violated** | a lidar whose entry has no `pcl_data_type` and that sends centimetres |
| `packets_mixed` | `EachPacketOnce`, `FrameConsistent` | 2 lidars, 2 packets each, the clock type chosen per packet, stamps in any order |
| `packets_dense` | `FramesOnTime` | a lidar, 24 quarter milliseconds, intervals of 2 ms: the first frame and the two boundaries after it |
| `packets_host` | `RateKept`, `ExitJoins` | a lidar, 4 packets, host clock up to 5, interval 2: delays of more than an interval occur; exit at any step |

The type invariant of each module is checked by one of its runs.

The set-ups of `data_path` are sets of their own in `MCDataPath`, each for one question:

* `Rates`: `publish_freq` from nonsense to nonsense, with both sides of every boundary
  (the limits 1 and 200 half hertz, 20 where the size of the ring changes, powers of two);
* `Mountings`: all 64 combinations of quarter turns of a lidar, in each of the three types of
  data, with a translation whose tenth is not whole. A coordinate is linear in the sine and
  the cosine of each angle, and a combination of 1, cos and sin that is zero at all quarter
  turns is zero everywhere: formulas that agree at the quarter turns agree at all angles;
* `Bodies`: all quarter turns of a box, and of the mounting on the vehicle, with three boxes,
  a blank entry, paddings and the crop, against all 343 points of a cube that is larger
  than the boxes; for each of them the faces are met exactly;
* `Pipelines`: files with entries that are repeated, incomplete, without address or more
  than the table has room for (3 lidars for 2 places), with one topic and with many, with
  announcements, configuration and two packets in any order;
* `Limits`: limits on the number of points below, at and above the size of a frame, bad
  boxes, both formats, stamps that are farther apart than `OffsetRange` (16 instead of
  2^32, so that offsets wrap), and stamps above `MantissaRange` (8 instead of 2^53). Points
  of a packet are 1 apart, so that the stamps 5, 13 and 43 of packets give stamps of points
  that are exact as doubles (5, 14), ties that go down (13) and up to a power of two (15),
  and stamps nearer to the double below (43) or above (45).

No ring gets full in this run: two packets come, and the smallest ring has 16 places. Full
rings are the subject of `ring` and `delivery`, and the theorems about `DataPath` cover its
branch for a full ring.

Each property is stated with the lines it is about where it is defined. Deadlock is
checked in `ring` and `index`; in the other runs the system may stop: the poll thread has ended, all
requests are answered, or a bound of the exploration is reached.

### What the runs found

* `stamp_topics`: the filter remembers one newest stamp for the frames of all lidars.
  With `multi_topic` each lidar publishes to its own topic, and a frame that is in
  order there is still dropped and logged as "out-of-order". The poll thread empties one
  lidar's ring before the next (`lddc.cpp:417-425`), so after its three seconds of sleep
  at the start the whole backlog of the second lidar meets the newest stamp of the first.
* `translation_units`: the translation of the extrinsics is in millimetres (`comm.h:219, 224`)
  and is divided by ten at start-up only if the configuration file sets `pcl_data_type` to
  the low resolution (`lds_lidar.cpp:163`). A lidar that sends centimetres without being
  told so has its translation applied ten times too large. `PointsCompensated` holds with
  the premise that what is sent is what is configured.
* Points of a lidar that has no extrinsics are not left as they are: the default matrix
  of a handler has `{0, 1, 1}` as its second row (`pub_handler.h:66`), which adds z to y.
  This concerns lidars that the configuration does not list or for which there is no place;
  `PointsCompensated` speaks of the others (`Placed`).
* Lidars that the configuration does not list share, with `multi_topic`, one topic that is
  named after the address 0.0.0.0, because their device gets a type but no handle
  (`livox_lidar_callback.cpp:53`); `OwnTopic` speaks of the topics of listed lidars.
* In the format PointCloud2 the self filter is not applied; `FilterOn` says so.
* In the format PointCloud2 the stamp of a point, nanoseconds in 64 bits, is cast to a double
  with 53 (`lddc.cpp:622`). Since 2^53 ns is 104 days, stamps of the present time, about
  1.7e18 ns, are rounded to a multiple of 256 ns: they are not recovered exactly, and two
  of them can become one. `TimesRecovered` says what is left: the error is at most one in
  2^53, and no two points change their order. In the custom format the stamp is exact as
  long as the offset fits in 32 bits.
* `CacheIndex` with two allocating threads violates `NoIndexLost` and
  `AnswersConsistent`: both may find a handle missing and take an index each. The driver
  has one such thread at a time.
* `Delivery` with `delayed` stores violates `NoLostWakeup` without the premise `Prompt`:
  on x86 the producer can read a count of 1 that the poll thread consumes before the new
  `wr_idx` is visible to it, and the frame waits for the next push. Nothing in the
  repository promises otherwise; `BacklogPublished` shows that continuing traffic repairs it.
* `FramesOnTime` needs packets that end within half a millisecond of each other: with
  packets a millisecond apart the boundary of `pub_handler.cpp:174-181` can be missed
  and a frame lasts for two intervals. The MID360 sends about two packets per
  millisecond.
* `ExitUnderTraffic` needs traffic: a poll thread blocked in `Semaphore::Wait` is not
  woken by `~DriverNode`.

### Fairness

* `Delivery`: weak fairness of the producer between its push and the end of its test, of
  the poll thread, of the store buffer and of the rest of `~DriverNode` once begun. These
  are threads that the operating system runs. Nothing makes a lidar send, get ready, or
  a user quit. `BacklogPublished` and `ExitUnderTraffic` have the premise `Traffic`, that
  pushes go on. `Paced` excludes that the inner loop chases a producer that is faster than
  publishing for ever; frames are at least 10 ms apart (`livox_ros_driver2.cpp:158-164`).
* `LidarConfig`: weak fairness of the handler, and of the callbacks for timeouts and
  refusals; strong fairness of a request's acceptance and of the delivery of a success, as
  `config_mutex_` is taken and released again and requests are retried again and again.
* `PubHandler`: weak fairness of the processing thread and of the 500 ms timeout.
* `CacheIndex` and `DataPath` have safety properties only, and no fairness.

## Proofs

All theorems hold for every value of the constants that satisfies the named `ASSUME`s.

* **LdqProofs**: `TypeCorrect`, `RingInvariant`, `NoSharedSlot`, `RingRefinesChannel`. The
  inductive invariant is `TypeOK /\ RingInv`: the fill level (the wrapped difference of the
  indices) is at most `Size`, less while the producer writes and more than zero while
  the consumer reads; slots in the window from `rd_idx` to `wr_idx` hold whole frames; the
  consumer's partial copy agrees with its slot. The arithmetic comes first as lemmas about
  `%`: as `Size` divides `IdxMod` at least twice, an index that wraps meets the right slot,
  and indices less than `Size` apart have different slots. The refinement has a lemma for
  each step that changes the channel and one for the quiet steps.
* **DeliveryProofs**: `TypeCorrect`, `SemaphoreBinary`, `OwedIsCovered`, `NoWakeupLost`.
  `NoLostWakeup` is not inductive; `EveryOwedCovered` says who will still look at each
  owed entry, and is, together with the type invariant and the fact that nothing is
  buffered when stores are prompt. The premise `Prompt` is part of both properties.
* **LidarConfigProofs**: `TypeCorrect`, `SamplingIsConfigured`, `BitsAreOutstanding`. The
  strengthening of the first relates the lock to the handler's position and says that each
  configured parameter is confirmed, has its bit, or is still to be sent by the handler that
  holds the lock. `BitsOutstanding` is inductive with the types: whatever takes the last
  request of a parameter away clears its bit or notes the refusal.
* **CacheIndexProofs**: `TypeCorrect` and `IndexIsInjective` hold for any number of allocating
  threads, by an invariant that ties the holder of the mutex to its position and its index.
  `AnswersAreConsistent`, `NoIndexIsLost` and `RegistryImplemented` have the premise of one
  allocator, without which they are false; then a thread that is past `Find` knows that
  its lidar is still not registered. The refinement hides the half-inserted node, so that
  `Store` is the step that assigns.
* **PubHandlerProofs**: `TypeCorrect`, `PacketsOnce`, `FramesAreConsistent`, `RateIsKept`. The
  three places between the SDK and the point clouds are one sequence, `Held`; arrival
  appends to it, `PushPacket` and `PopPacket` leave it as it is, `PointCloudProcess` takes its
  first element to the end of a point cloud, and a frame moves a point cloud to the count
  of what is published. Two lemmas about sequences (`Arrive`, `Leave`) carry the order.
  `FramesAreOnTime`, in a section of its own, has the premise `Steady`: synchronized clocks
  only, no gaps, packets that last at most half a millisecond, and an interval of whole
  milliseconds. Each multiple of the interval opens a window of a millisecond in which a
  frame can become due. `Bounded` says that a point cloud begins after such a window, but
  less than half a millisecond after its end, and has not passed the next window by more
  than a slack: half a millisecond, and a packet more between `PointCloudProcess` and
  `CheckTimer`. A cloud that would pass it is due (`Tested`), so that the next cloud
  begins after a window again (`BeginNext`). `Linked` and `Continues` carry the absence of
  gaps from one packet to the next along `Held`.
* **StampFilterProofs**: `TypeCorrect`, `OrderIsKept`, `CountsAreBounded`. The remembered stamp
  bounds everything published; a loaded counter is at most the number of earlier drops.
* **SelfFilterProofs**: `RotationIsTurn`, `ExtrinsicIsTurn`, `BoxIsExact`: the three formulas
  are what they are meant to be for all integer points, shifts, sizes and paddings. The
  first two rest on identities in which sine and cosine stand for any numbers.
  `SelfFilterExact`: of every cloud, `ApplySelfFilter` with the loaded parameters leaves
  exactly `Outside`, or everything when a box cannot be read. `Ascending` is recursive in
  the length of the cloud, so that its lemmas need an induction. It is done with sets of
  lengths in place of predicates: the lengths at which a lemma fails would have a least
  element (`LeastElement`, `AllNaturals`, from `WFMin` of `WellFoundedInduction`).
* **DataPathProofs**: `TypeCorrect`, `RatesAreSound`, `TimesAreRecovered`,
  `PointsAreCompensated`, `TopicsAreOwn`, `FilterIsExact`, `RegistryIsKept`, for any number
  of lidars and places, and any configuration file, filter, frequency and packets of the
  types that the parsers give (`DataPathAssumption`). Most of these are not inductive; the
  strengthening comes in layers, each of which uses those below it:
  * `BaseInv`: the types, the filter is the one that was loaded, and nothing flows before
    the threads run.
  * `RatesSet`: rates and ring sizes are those of the frequency. The ring holds what was
    asked for because the power of two is not less than the size it rounds.
  * `StartInv`: `Remaining` says that the entries that are left are the end of the parsed
    file; `Registered` that no two lidars share an index and that a device of the file
    keeps its handle; `Filled` that a lidar has the extrinsics of its last entry so far, or
    met a table full of other lidars that are listed before it. `PlacedIsFilled` counts: a
    lidar that is listed early enough (`Placed`) cannot have met a full table, because
    there are fewer lidars before it than places.
  * `FlowInv`: every point in a handler (`HandlersKnown`), in a queue (`QueuesKnown`) and
    in what was distributed (`KnownOutcome`) is of the lidar that the device belongs to,
    has the stamp of its packet and is in its place if its lidar is placed; every frame
    has the stamp of its first point; a topic is named after its device (`TopicsNamed`).

  The theorems about points, times and topics follow from `FlowInv` by what one message
  makes of one frame (`MessagePoints`, `PublishedPoints`). For the times this includes the
  cast to double: `DoubleIsClose` bounds its error by half the spacing, which
  `SpacingFacts` relates to the stamp, and `DoubleKeepsOrder` needs two cases, as the end of
  one spacing is also a multiple of the next. `FilterIsExact` follows from
  `SelfFilterExact`, as the filter is the loaded one and looks at places, not at stamps.
  `RegistryIsKept` maps `FillDevice` and `LidarInfoChange` to the assignment of an index or
  to a stutter: with `RegistryImplemented` of `CacheIndexProofs`, the code's critical
  sections and the table that start-up relies on meet in one abstract registry.

Only model-checked: the six liveness properties (`EntriesPublished`, `BacklogPublished`,
`ExitUnderTraffic`, `ReadyEventually`, `Reconfigured`, `ExitJoins`), which are out of the
prover's reach. Every other property of a passing run is a theorem.

## Not modelled

* The rounding of coordinates and angles (that of stamps is modelled), the fields of points
  that are only copied (reflectivity, tag, line), the layout of messages, the log, and the
  pcl format that the ROS 2 build does not support.
* The start of the SDK and the errors that end the start-up (`LdsLidar::InitLdsLidar`,
  a missing configuration file, an invalid `data_src`): sequential, no state is kept.
* The syntax of the configuration file and `ParseSummaryInfo`; conversions of addresses to
  and from text.
* The ROS 1 build, the `.lvx` path (`StorageLvxPointData` has no caller), bag files,
  functions without caller (`ResetQueue`, `ResetIndex`, `LvxGetIndex`).
* Order of static destruction at process exit, memory models weaker than x86.
* Vendored code under `src/3rdparty` and the SDK itself.

## Plan

Done, in this order: the ring and its refinement (the only lock-free structure), delivery
(composes all queues), configuration, stamp filter, packet assembly, index registry and
its refinement, the data path from the configuration file to the topics with the geometry
of the self filter, proofs of the safety invariants of all protocols, the frames of a
synchronized lidar, the self filter for any cloud, the safety invariants of the data path.

Left:

1. A composition of the producer's side: one frame for several lidars through
   `StoragePointData` into several rings and one semaphore, implementing a channel per
   lidar.
2. The end of the process: callbacks that are registered before they can be served, and
   the order of destruction of the two singletons.
