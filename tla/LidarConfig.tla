---------------------------- MODULE LidarConfig -----------------------------
(***************************************************************************)
(* How a lidar is configured before its data is published                  *)
(* (src/call_back/livox_lidar_callback.cpp).                               *)
(*                                                                         *)
(* The SDK announces a lidar by LidarInfoChangeCallback, which sends one   *)
(* request per configured parameter and remembers it as a bit of set_bits; *)
(* the answers arrive as callbacks on another thread, in any order, after  *)
(* timeouts and retries.  When the last bit is cleared the lidar becomes   *)
(* "sampling", which is what the poll threads test (Delivery.tla).         *)
(* config_mutex_ keeps an answer from being counted while the handler is   *)
(* still setting bits.                                                     *)
(*                                                                         *)
(* The lidar and the network are external: a request may be lost, applied  *)
(* with its answer lost, applied and answered, or refused; a lidar may     *)
(* reboot, which makes it forget its parameters and be announced again.    *)
(***************************************************************************)
EXTENDS Integers, FiniteSets

CONSTANTS
  Handles,          (* the lidars on the network                            *)
  ParamCount,       (* bits of set_bits: 4 in the code (comm.h:119-125)     *)
  Others,           (* which of the requests without a bit are followed     *)
  kMaxSourceLidar,  (* number of lidars that get an index                   *)
  MaxReboots        (* bounds the exploration: reboots of each lidar        *)

Params == 0 .. ParamCount - 1

(* The requests that have no bit. *)
Attitude == -1
WorkMode == -2
Imu      == -3

Kinds == Params \cup Others

ASSUME ConfigAssumption ==
  /\ ParamCount \in Nat \ {0}
  /\ Others \subseteq {Attitude, WorkMode, Imu}
  /\ kMaxSourceLidar \in Nat
  /\ MaxReboots \in Nat

(* Where a request is: not yet at the lidar; answered; or its answer (or the
   request itself) lost, which the SDK reports as a timeout. *)
Stages == {"sent", "ok", "refused", "lost"}

VARIABLES
  known,          (* handles that have an index in cache_index_              *)
  declared,       (* handles whose livox_config comes from the user's file   *)
  config,         (* which parameters of livox_config differ from -1         *)
  set_bits,       (* livox_config.set_bits                                   *)
  connect_state,  (* "off" or "sampling"                                     *)
  config_mutex,   (* TRUE while the handler holds config_mutex_              *)
  pc, handle,     (* LidarInfoChangeCallback: where it is, and for whom      *)
  todo,           (* parameters this callback has still to send              *)
  requests,       (* number of requests of each lidar, kind and stage        *)
  applied,        (* external: what each lidar has been set to               *)
  announced,      (* external: the SDK has announced the lidar since it booted *)
  reboots,        (* external: reboots left                                  *)
  acked,          (* history: parameters whose success was counted           *)
  rejected        (* history: kinds of requests that a lidar refused         *)

vars == <<known, declared, config, set_bits, connect_state, config_mutex, pc,
          handle, todo, requests, applied, announced, reboots, acked, rejected>>

handler == <<known, declared, config, pc, handle, todo>>
device  == <<set_bits, connect_state>>
history == <<acked, rejected>>
lidar   == <<applied, announced, reboots>>

-----------------------------------------------------------------------------
(* The user's file may leave out any lidar, and any parameter of a lidar. *)
ParseUserConfigs ==
  /\ declared \in SUBSET Handles
  /\ config \in [Handles -> SUBSET Params]
  /\ \A h \in Handles \ declared : config[h] = Params

(* InitLivoxLidar gives an index to the lidars of the user's file, as long as
   there is one.  The livox_config of a slot that it does not fill is zero, so
   that each of its parameters differs from -1 as well. *)
Init ==
  /\ ParseUserConfigs
  /\ Cardinality(declared) <= kMaxSourceLidar
  /\ known = declared
  /\ set_bits = [h \in Handles |-> {}]
  /\ connect_state = [h \in Handles |-> "off"]
  /\ config_mutex = FALSE
  /\ pc = "idle"
  /\ handle \in Handles
  /\ todo = {}
  /\ requests = [h \in Handles |-> [k \in Kinds |-> [s \in Stages |-> 0]]]
  /\ applied = [h \in Handles |-> {}]
  /\ announced = [h \in Handles |-> FALSE]
  /\ reboots = [h \in Handles |-> MaxReboots]
  /\ acked = [h \in Handles |-> {}]
  /\ rejected = [h \in Handles |-> {}]

(* Requests of one lidar after one of each kind in ks has been sent. *)
Sent(h, ks) ==
  [requests EXCEPT ![h] =
    [k \in Kinds |->
      IF k \in ks THEN [requests[h][k] EXCEPT !["sent"] = @ + 1] ELSE requests[h][k]]]

(* A request moves from one stage to another. *)
Moved(h, k, from, to) ==
  [requests EXCEPT ![h][k][from] = @ - 1, ![h][k][to] = @ + 1]

(* A request has come to its end. *)
Closed(h, k, stage) ==
  [requests EXCEPT ![h][k][stage] = @ - 1]

-----------------------------------------------------------------------------
(* LidarInfoChangeCallback.                                                 *)

GetIndex(h) == h \in known

HasFreeIndex == Cardinality(known) < kMaxSourceLidar

(* Of the indices only the number matters here: each lidar's device is named by
   the lidar's handle. *)
GetFreeIndex(h) ==
  /\ HasFreeIndex
  /\ known' = known \cup {h}

(* A lidar without an index is given one, if one is left, but no parameters
   are sent to it. *)
InfoChange(h) ==
  /\ pc = "idle"
  /\ ~announced[h]
  /\ announced' = [announced EXCEPT ![h] = TRUE]
  /\ handle' = h
  /\ \/ /\ GetIndex(h)
        /\ pc' = "lock"
        /\ UNCHANGED known
     \/ /\ ~GetIndex(h)
        /\ GetFreeIndex(h)
        /\ pc' = "work"
     \/ /\ ~GetIndex(h)
        /\ ~HasFreeIndex
        /\ pc' = "idle"
        /\ UNCHANGED known
  /\ UNCHANGED <<declared, config, config_mutex, todo, requests, applied,
                 reboots, device, history>>

LockConfig ==
  /\ pc = "lock"
  /\ ~config_mutex
  /\ config_mutex' = TRUE
  /\ todo' = config[handle]
  /\ pc' = "config"
  /\ UNCHANGED <<known, declared, config, handle, requests, device, history,
                 lidar>>

(* Mutated form of SendParam: the next parameter's bit is set. *)
SendParam_NextBit ==
  /\ pc = "config"
  /\ \E p \in todo :
       /\ \A q \in todo : p <= q
       /\ set_bits' = [set_bits EXCEPT ![handle] = @ \cup {p + 1}]
       /\ requests' = Sent(handle, {p})
       /\ todo' = todo \ {p}
  /\ UNCHANGED <<known, declared, config, connect_state, config_mutex, pc,
                 handle, history, lidar>>

(* The parameters are sent in the order of their bits. *)
SendParam ==
  /\ pc = "config"
  /\ \E p \in todo :
       /\ \A q \in todo : p <= q
       /\ set_bits' = [set_bits EXCEPT ![handle] = @ \cup {p}]
       /\ requests' = Sent(handle, {p})
       /\ todo' = todo \ {p}
  /\ UNCHANGED <<known, declared, config, connect_state, config_mutex, pc,
                 handle, history, lidar>>

UnlockConfig ==
  /\ pc = "config"
  /\ todo = {}
  /\ config_mutex' = FALSE
  /\ pc' = "attitude"
  /\ UNCHANGED <<known, declared, config, handle, todo, requests, device,
                 history, lidar>>

(* SetLivoxLidarInstallAttitude uses config.handle, which is zero for a lidar
   that the configuration does not list: nobody gets that request. *)
SendAttitude ==
  /\ pc = "attitude"
  /\ requests' = IF handle \in declared THEN Sent(handle, {Attitude})
                                        ELSE requests
  /\ pc' = "work"
  /\ UNCHANGED <<known, declared, config, config_mutex, handle, todo, device,
                 history, lidar>>

(* SetLivoxLidarWorkMode and EnableLivoxLidarImuData end the callback. *)
SendWorkMode ==
  /\ pc = "work"
  /\ requests' = Sent(handle, {WorkMode, Imu})
  /\ pc' = "idle"
  /\ UNCHANGED <<known, declared, config, config_mutex, handle, todo, device,
                 history, lidar>>

-----------------------------------------------------------------------------
(* The answers.                                                             *)

(* Mutated form of OnSuccess: the answer does not take config_mutex_. *)
OnSuccess_Unlocked(h, k) ==
  /\ requests[h][k]["ok"] > 0
  /\ requests' = Closed(h, k, "ok")
  /\ IF k \in Params
       THEN /\ set_bits' = [set_bits EXCEPT ![h] = @ \ {k}]
            /\ connect_state' = IF set_bits'[h] = {}
                                  THEN [connect_state EXCEPT ![h] = "sampling"]
                                  ELSE connect_state
            /\ acked' = [acked EXCEPT ![h] = @ \cup {k}]
       ELSE UNCHANGED <<device, acked>>
  /\ UNCHANGED <<handler, config_mutex, rejected, lidar>>

(* Mutated form of OnSuccess: the bits are tested before this one is cleared. *)
OnSuccess_TestFirst(h, k) ==
  /\ requests[h][k]["ok"] > 0
  /\ requests' = Closed(h, k, "ok")
  /\ IF k \in Params
       THEN /\ ~config_mutex
            /\ set_bits' = [set_bits EXCEPT ![h] = @ \ {k}]
            /\ connect_state' = IF set_bits[h] = {}
                                  THEN [connect_state EXCEPT ![h] = "sampling"]
                                  ELSE connect_state
            /\ acked' = [acked EXCEPT ![h] = @ \cup {k}]
       ELSE UNCHANGED <<device, acked>>
  /\ UNCHANGED <<handler, config_mutex, rejected, lidar>>

(* A parameter was set: its bit is cleared under config_mutex_, and the lidar is
   sampling when no bit is left.  The other requests have no bit. *)
OnSuccess(h, k) ==
  /\ requests[h][k]["ok"] > 0
  /\ requests' = Closed(h, k, "ok")
  /\ IF k \in Params
       THEN /\ ~config_mutex
            /\ set_bits' = [set_bits EXCEPT ![h] = @ \ {k}]
            /\ connect_state' = IF set_bits'[h] = {}
                                  THEN [connect_state EXCEPT ![h] = "sampling"]
                                  ELSE connect_state
            /\ acked' = [acked EXCEPT ![h] = @ \cup {k}]
       ELSE UNCHANGED <<device, acked>>
  /\ UNCHANGED <<handler, config_mutex, rejected, lidar>>

(* Mutated form of OnTimeout: nothing is tried again. *)
OnTimeout_GiveUp(h, k) ==
  /\ requests[h][k]["lost"] > 0
  /\ requests' = Closed(h, k, "lost")
  /\ UNCHANGED <<handler, config_mutex, device, history, lidar>>

(* A timeout: the request is sent again.  Only the IMU callback looks at its
   response first and gives up when there is none, which is up to the SDK. *)
OnTimeout(h, k) ==
  /\ requests[h][k]["lost"] > 0
  /\ \/ requests' = Moved(h, k, "lost", "sent")
     \/ k = Imu /\ requests' = Closed(h, k, "lost")
  /\ UNCHANGED <<handler, config_mutex, device, history, lidar>>

(* A refusal: the work mode is tried again, everything else is given up; the
   bit of a parameter stays set. *)
OnFailure(h, k) ==
  /\ requests[h][k]["refused"] > 0
  /\ IF k = WorkMode
       THEN requests' = Moved(h, k, "refused", "sent") /\ UNCHANGED rejected
       ELSE /\ requests' = Closed(h, k, "refused")
            /\ rejected' = [rejected EXCEPT ![h] = @ \cup {k}]
  /\ UNCHANGED <<handler, config_mutex, device, acked, lidar>>

-----------------------------------------------------------------------------
(* External: the lidar and the network.                                     *)

Accept(h, k) ==
  /\ requests[h][k]["sent"] > 0
  /\ applied' = [applied EXCEPT ![h] = @ \cup {k}]
  /\ requests' = Moved(h, k, "sent", "ok")
  /\ UNCHANGED <<handler, config_mutex, device, history, announced, reboots>>

AcceptUnheard(h, k) ==
  /\ requests[h][k]["sent"] > 0
  /\ applied' = [applied EXCEPT ![h] = @ \cup {k}]
  /\ requests' = Moved(h, k, "sent", "lost")
  /\ UNCHANGED <<handler, config_mutex, device, history, announced, reboots>>

RefuseRequest(h, k) ==
  /\ requests[h][k]["sent"] > 0
  /\ requests' = Moved(h, k, "sent", "refused")
  /\ UNCHANGED <<handler, config_mutex, device, history, lidar>>

Lose(h, k) ==
  /\ requests[h][k]["sent"] > 0
  /\ requests' = Moved(h, k, "sent", "lost")
  /\ UNCHANGED <<handler, config_mutex, device, history, lidar>>

Reboot(h) ==
  /\ reboots[h] > 0
  /\ announced[h]
  /\ reboots' = [reboots EXCEPT ![h] = @ - 1]
  /\ announced' = [announced EXCEPT ![h] = FALSE]
  /\ applied' = [applied EXCEPT ![h] = {}]
  /\ UNCHANGED <<handler, config_mutex, device, requests, history>>

-----------------------------------------------------------------------------
Handler ==
  \/ \E h \in Handles : InfoChange(h)
  \/ LockConfig
  \/ SendParam
  \/ UnlockConfig
  \/ SendAttitude
  \/ SendWorkMode

Answer(h, k) == OnSuccess(h, k) \/ OnTimeout(h, k) \/ OnFailure(h, k)

External(h, k) ==
  Accept(h, k) \/ AcceptUnheard(h, k) \/ RefuseRequest(h, k) \/ Lose(h, k)

Next ==
  \/ Handler
  \/ \E h \in Handles, k \in Kinds : Answer(h, k) \/ External(h, k)
  \/ \E h \in Handles : Reboot(h)

(* The SDK announces every lidar, its threads run, and a request that is sent
   again and again is answered in the end. *)
Fairness ==
  /\ WF_vars(Handler)
  /\ \A h \in Handles, k \in Kinds :
       /\ SF_vars(OnSuccess(h, k))
       /\ WF_vars(OnTimeout(h, k))
       /\ WF_vars(OnFailure(h, k))
       /\ SF_vars(Accept(h, k))

Spec == Init /\ [][Next]_vars /\ Fairness

-----------------------------------------------------------------------------
(* Properties.                                                              *)

TypeOK ==
  /\ known \subseteq Handles
  /\ declared \subseteq Handles
  /\ config \in [Handles -> SUBSET Params]
  /\ set_bits \in [Handles -> SUBSET Params]
  /\ connect_state \in [Handles -> {"off", "sampling"}]
  /\ config_mutex \in BOOLEAN
  /\ pc \in {"idle", "lock", "config", "attitude", "work"}
  /\ handle \in Handles
  /\ todo \subseteq Params
  /\ requests \in [Handles -> [Kinds -> [Stages -> Nat]]]
  /\ applied \in [Handles -> SUBSET Kinds]
  /\ announced \in [Handles -> BOOLEAN]
  /\ reboots \in [Handles -> Nat]
  /\ acked \in [Handles -> SUBSET Params]
  /\ rejected \in [Handles -> SUBSET Kinds]

(* A lidar is published only after it has confirmed every configured parameter,
   however answers, timeouts, refusals, reboots and new announcements
   interleave with the handler (livox_lidar_callback.cpp:60-91, 137-142). *)
SamplingConfigured ==
  \A h \in Handles : connect_state[h] = "sampling" =>
    config[h] # {} /\ config[h] \subseteq acked[h]

InFlight(h, k) == \E s \in Stages : requests[h][k][s] > 0

(* A bit is never left set by an accident of timing: it stands for a request
   that is still under way, or the lidar refused that parameter
   (livox_lidar_callback.cpp:60-91, 137-155). *)
BitsOutstanding ==
  \A h \in Handles : \A p \in set_bits[h] : InFlight(h, p) \/ p \in rejected[h]

(* A declared lidar with something to configure ends up being published unless
   it refuses a parameter, whatever is lost on the way. *)
ReadyEventually ==
  \A h \in Handles : [](h \in declared /\ announced[h] /\ config[h] # {} =>
    <>(connect_state[h] = "sampling" \/ rejected[h] # {}))

(* After its last reboot a declared lidar gets all its parameters again, its
   attitude and its work mode too, although late answers of the requests sent
   before the reboot may clear the bits of the new ones. *)
Reconfigured ==
  \A h \in Handles : <>[](\/ h \notin declared
                          \/ config[h] \cup (Others \ {Imu}) \subseteq applied[h]
                          \/ rejected[h] # {})

=============================================================================
