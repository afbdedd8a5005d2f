-------------------------- MODULE LidarConfigProofs -------------------------
(***************************************************************************)
(* Theorems about LidarConfig, for any number of lidars, parameters and    *)
(* reboots.                                                                *)
(*                                                                         *)
(* SamplingConfigured is not inductive: whether the last answer may make a *)
(* lidar sampling depends on what is still in flight.  The strengthening   *)
(* says that a lidar is either Untouched, with no request of a parameter   *)
(* under way, or Covered, each configured parameter being confirmed, or    *)
(* having its bit set, or being about to be sent by the locked section of  *)
(* the handler.  The lock matters in OnSuccess alone: since no section is  *)
(* running, nothing is "about to be sent" when the bits are tested.        *)
(*                                                                         *)
(* BitsOutstanding is inductive with the types alone: the action that      *)
(* takes the last request of a parameter away clears its bit or notes the  *)
(* refusal.                                                                *)
(***************************************************************************)
EXTENDS LidarConfig, TLAPS

RequestsOK == requests \in [Handles -> [Kinds -> [Stages -> Nat]]]

(* The locked section runs exactly while pc = "config". *)
LockOK ==
  /\ config_mutex <=> pc = "config"
  /\ pc # "config" => todo = {}

(* Parameters that the handler is about to send to h. *)
Unsent(h) == IF pc = "config" /\ handle = h THEN todo ELSE {}

Untouched(h) ==
  /\ \A p \in Params, s \in Stages : requests[h][p][s] = 0
  /\ connect_state[h] = "off"
  /\ pc = "config" /\ handle = h => todo = config[h]

Covered(h) ==
  /\ config[h] # {}
  /\ config[h] \subseteq set_bits[h] \cup acked[h] \cup Unsent(h)
  /\ connect_state[h] = "sampling" => config[h] \subseteq acked[h]

IInv ==
  /\ TypeOK
  /\ LockOK
  /\ \A h \in Handles : Untouched(h) \/ Covered(h)

-----------------------------------------------------------------------------
(* What an action does to requests. *)

LEMMA KindsDisjoint ==
  /\ Params \subseteq Int
  /\ \A p \in Params : p # Attitude /\ p # WorkMode /\ p # Imu
BY ConfigAssumption DEF Params, Attitude, WorkMode, Imu

LEMMA MovedFacts ==
  ASSUME RequestsOK, NEW h \in Handles, NEW k \in Kinds,
         NEW from \in Stages, NEW to \in Stages, from # to,
         requests[h][k][from] > 0
  PROVE  /\ Moved(h, k, from, to) \in [Handles -> [Kinds -> [Stages -> Nat]]]
         /\ \A g \in Handles, j \in Kinds :
              g # h \/ j # k => Moved(h, k, from, to)[g][j] = requests[g][j]
<1> DEFINE row == [requests[h][k] EXCEPT ![from] = @ - 1, ![to] = @ + 1]
           table == [requests[h] EXCEPT ![k] = row]
<1>1. requests[h] \in [Kinds -> [Stages -> Nat]] /\ requests[h][k] \in [Stages -> Nat]
  BY DEF RequestsOK
<1>2. row \in [Stages -> Nat]
  <2>1. requests[h][k][from] \in Nat /\ requests[h][k][to] \in Nat
    BY <1>1
  <2> QED  BY <1>1, <2>1
<1>3. table \in [Kinds -> [Stages -> Nat]] /\ \A j \in Kinds : j # k => table[j] = requests[h][j]
  <2> HIDE DEF row
  <2> QED  BY <1>1, <1>2
<1>4. Moved(h, k, from, to) = [requests EXCEPT ![h] = table]
  BY DEF Moved
<1> HIDE DEF table
<1> QED  BY <1>3, <1>4 DEF RequestsOK

LEMMA ClosedFacts ==
  ASSUME RequestsOK, NEW h \in Handles, NEW k \in Kinds, NEW s \in Stages,
         requests[h][k][s] > 0
  PROVE  /\ Closed(h, k, s) \in [Handles -> [Kinds -> [Stages -> Nat]]]
         /\ \A g \in Handles, j \in Kinds :
              g # h \/ j # k => Closed(h, k, s)[g][j] = requests[g][j]
<1> DEFINE row == [requests[h][k] EXCEPT ![s] = @ - 1]
           table == [requests[h] EXCEPT ![k] = row]
<1>1. requests[h] \in [Kinds -> [Stages -> Nat]] /\ requests[h][k] \in [Stages -> Nat]
  BY DEF RequestsOK
<1>2. row \in [Stages -> Nat]
  <2>1. requests[h][k][s] \in Nat
    BY <1>1
  <2> QED  BY <1>1, <2>1
<1>3. table \in [Kinds -> [Stages -> Nat]] /\ \A j \in Kinds : j # k => table[j] = requests[h][j]
  <2> HIDE DEF row
  <2> QED  BY <1>1, <1>2
<1>4. Closed(h, k, s) = [requests EXCEPT ![h] = table]
  BY DEF Closed
<1> HIDE DEF table
<1> QED  BY <1>3, <1>4 DEF RequestsOK

LEMMA SentFacts ==
  ASSUME RequestsOK, NEW h \in Handles, NEW ks
  PROVE  /\ Sent(h, ks) \in [Handles -> [Kinds -> [Stages -> Nat]]]
         /\ \A g \in Handles, j \in Kinds :
              g # h \/ j \notin ks => Sent(h, ks)[g][j] = requests[g][j]
<1> DEFINE row(k) == [requests[h][k] EXCEPT !["sent"] = @ + 1]
           table == [k \in Kinds |-> IF k \in ks THEN row(k) ELSE requests[h][k]]
<1>1. \A k \in Kinds : requests[h][k] \in [Stages -> Nat]
  BY DEF RequestsOK
<1>2. \A k \in Kinds : row(k) \in [Stages -> Nat]
  BY <1>1 DEF Stages
<1>3. table \in [Kinds -> [Stages -> Nat]] /\ \A j \in Kinds : j \notin ks => table[j] = requests[h][j]
  <2> HIDE DEF row
  <2> QED  BY <1>1, <1>2
<1>4. Sent(h, ks) = [requests EXCEPT ![h] = table]
  BY DEF Sent, RequestsOK
<1> HIDE DEF table
<1> QED  BY <1>3, <1>4 DEF RequestsOK

-----------------------------------------------------------------------------
(* Type correctness. *)

LEMMA InitType == Init => TypeOK
<1> SUFFICES ASSUME Init PROVE TypeOK
  OBVIOUS
<1>1. requests \in [Handles -> [Kinds -> [Stages -> Nat]]]
  BY DEF Init
<1>2. reboots \in [Handles -> Nat]
  BY ConfigAssumption DEF Init
<1>3. /\ known \subseteq Handles /\ declared \subseteq Handles
      /\ config \in [Handles -> SUBSET Params]
  BY DEF Init, ParseUserConfigs
<1>4. /\ set_bits \in [Handles -> SUBSET Params]
      /\ acked \in [Handles -> SUBSET Params]
      /\ rejected \in [Handles -> SUBSET Kinds]
      /\ applied \in [Handles -> SUBSET Kinds]
      /\ announced \in [Handles -> BOOLEAN]
      /\ connect_state \in [Handles -> {"off", "sampling"}]
  BY DEF Init
<1>5. /\ config_mutex \in BOOLEAN /\ handle \in Handles /\ todo \subseteq Params
      /\ pc \in {"idle", "lock", "config", "attitude", "work"}
  BY DEF Init
<1> QED  BY <1>1, <1>2, <1>3, <1>4, <1>5 DEF TypeOK

LEMMA NextType == TypeOK /\ [Next]_vars => TypeOK'
<1> SUFFICES ASSUME TypeOK, [Next]_vars PROVE TypeOK'
  OBVIOUS
<1> USE DEF TypeOK
<1>0. RequestsOK /\ "sent" \in Stages /\ "ok" \in Stages /\ "refused" \in Stages
      /\ "lost" \in Stages
  BY DEF RequestsOK, Stages
<1>1. ASSUME NEW h \in Handles, InfoChange(h) PROVE TypeOK'
  BY <1>1 DEF InfoChange, GetFreeIndex, device, history
<1>2. CASE LockConfig
  BY <1>2 DEF LockConfig, device, history, lidar
<1>3. CASE SendParam
  <2>1. PICK p \in todo : requests' = Sent(handle, {p}) /\ todo' = todo \ {p}
                          /\ set_bits' = [set_bits EXCEPT ![handle] = @ \cup {p}]
    BY <1>3 DEF SendParam
  <2>2. requests' \in [Handles -> [Kinds -> [Stages -> Nat]]]
    BY <1>0, <2>1, SentFacts
  <2> QED  BY <1>3, <2>1, <2>2 DEF SendParam, history, lidar
<1>4. CASE UnlockConfig
  BY <1>4 DEF UnlockConfig, device, history, lidar
<1>5. CASE SendAttitude
  <2>1. requests' \in [Handles -> [Kinds -> [Stages -> Nat]]]
    BY <1>0, <1>5, SentFacts DEF SendAttitude
  <2> QED  BY <1>5, <2>1 DEF SendAttitude, device, history, lidar
<1>6. CASE SendWorkMode
  <2>1. requests' \in [Handles -> [Kinds -> [Stages -> Nat]]]
    BY <1>0, <1>6, SentFacts DEF SendWorkMode
  <2> QED  BY <1>6, <2>1 DEF SendWorkMode, device, history, lidar
<1>7. ASSUME NEW h \in Handles, NEW k \in Kinds, Answer(h, k) \/ External(h, k)
      PROVE  TypeOK'
  <2> DEFINE Req == [Handles -> [Kinds -> [Stages -> Nat]]]
  <2>1. \A from \in Stages, to \in Stages :
          from # to /\ requests[h][k][from] > 0 => Moved(h, k, from, to) \in Req
    <3> HIDE DEF TypeOK
    <3> QED  BY <1>0, MovedFacts
  <2>2. \A s \in Stages : requests[h][k][s] > 0 => Closed(h, k, s) \in Req
    <3> HIDE DEF TypeOK
    <3> QED  BY <1>0, ClosedFacts
  <2>3. CASE OnSuccess(h, k)
    <3>1. requests' \in Req
      <4> HIDE DEF Req, TypeOK
      <4> QED  BY <1>0, <2>2, <2>3 DEF OnSuccess
    <3>2. /\ set_bits' \in [Handles -> SUBSET Params]
          /\ acked' \in [Handles -> SUBSET Params]
      <4>1. CASE k \in Params
        <5>1. /\ set_bits' = [set_bits EXCEPT ![h] = @ \ {k}]
              /\ acked' = [acked EXCEPT ![h] = @ \cup {k}]
          BY <2>3, <4>1 DEF OnSuccess
        <5>2. set_bits' \in [Handles -> SUBSET Params]
          BY <5>1
        <5>3. acked' \in [Handles -> SUBSET Params]
          BY <4>1, <5>1
        <5> QED  BY <5>2, <5>3
      <4>2. CASE k \notin Params
        BY <2>3, <4>2 DEF OnSuccess, device
      <4> QED  BY <4>1, <4>2
    <3>3. connect_state' \in [Handles -> {"off", "sampling"}]
      BY <2>3 DEF OnSuccess, device
    <3> QED  BY <2>3, <3>1, <3>2, <3>3 DEF OnSuccess, handler, lidar
  <2>4. CASE OnTimeout(h, k)
    <3>1. requests' \in Req
      <4> HIDE DEF Req, TypeOK
      <4> QED  BY <1>0, <2>1, <2>2, <2>4 DEF OnTimeout
    <3> QED  BY <2>4, <3>1 DEF OnTimeout, handler, device, history, lidar
  <2>5. CASE OnFailure(h, k)
    <3>1. requests' \in Req
      <4> HIDE DEF Req, TypeOK
      <4> QED  BY <1>0, <2>1, <2>2, <2>5 DEF OnFailure
    <3>2. rejected' \in [Handles -> SUBSET Kinds]
      <4>1. CASE k = WorkMode
        BY <2>5, <4>1 DEF OnFailure
      <4>2. CASE k # WorkMode
        <5>1. rejected' = [rejected EXCEPT ![h] = @ \cup {k}]
          BY <2>5, <4>2 DEF OnFailure
        <5> QED  BY <5>1
      <4> QED  BY <4>1, <4>2
    <3> QED  BY <2>5, <3>1, <3>2 DEF OnFailure, handler, device, lidar
  <2>6. CASE External(h, k)
    <3>1. requests' \in Req
      <4> HIDE DEF Req, TypeOK
      <4> QED
        BY <1>0, <2>1, <2>6 DEF External, Accept, AcceptUnheard, RefuseRequest, Lose
    <3>2. applied' \in [Handles -> SUBSET Kinds]
      BY <2>6 DEF External, Accept, AcceptUnheard, RefuseRequest, Lose, lidar
    <3> QED
      BY <2>6, <3>1, <3>2 DEF External, Accept, AcceptUnheard, RefuseRequest, Lose,
                              handler, device, history, lidar
  <2> QED  BY <1>7, <2>3, <2>4, <2>5, <2>6 DEF Answer
<1>9. ASSUME NEW h \in Handles, Reboot(h) PROVE TypeOK'
  BY <1>9 DEF Reboot, handler, device, history
<1>10. CASE UNCHANGED vars
  BY <1>10 DEF vars
<1> QED
  BY <1>1, <1>2, <1>3, <1>4, <1>5, <1>6, <1>7, <1>9, <1>10 DEF Next, Handler

(* Every variable keeps its type; in particular no answer is counted twice (the
   number of requests in a stage stays a natural number). *)
THEOREM TypeCorrect == Spec => []TypeOK
<1> QED  BY InitType, NextType, PTL DEF Spec

-----------------------------------------------------------------------------
(* The configuration protocol. *)

LEMMA InitIInv == Init => IInv
<1> SUFFICES ASSUME Init PROVE IInv
  OBVIOUS
<1>1. TypeOK
  BY InitType
<1>2. LockOK
  BY DEF Init, LockOK
<1>3. ASSUME NEW h \in Handles PROVE Untouched(h)
  BY <1>3 DEF Init, Untouched, Kinds
<1> QED  BY <1>1, <1>2, <1>3 DEF IInv

LEMMA NextLock == TypeOK /\ LockOK /\ [Next]_vars => LockOK'
<1> SUFFICES ASSUME TypeOK, LockOK, [Next]_vars PROVE LockOK'
  OBVIOUS
<1> USE DEF LockOK
<1>1. ASSUME NEW h \in Handles, InfoChange(h) PROVE LockOK'
  BY <1>1 DEF InfoChange
<1>2. CASE LockConfig
  BY <1>2 DEF LockConfig
<1>3. CASE SendParam
  BY <1>3 DEF SendParam
<1>4. CASE UnlockConfig
  BY <1>4 DEF UnlockConfig
<1>5. CASE SendAttitude
  BY <1>5 DEF SendAttitude
<1>6. CASE SendWorkMode
  BY <1>6 DEF SendWorkMode
<1>7. ASSUME NEW h \in Handles, NEW k \in Kinds, Answer(h, k) PROVE LockOK'
  BY <1>7 DEF Answer, OnSuccess, OnTimeout, OnFailure, handler
<1>8. ASSUME NEW h \in Handles, NEW k \in Kinds, External(h, k) PROVE LockOK'
  BY <1>8 DEF External, Accept, AcceptUnheard, RefuseRequest, Lose, handler
<1>9. ASSUME NEW h \in Handles, Reboot(h) PROVE LockOK'
  BY <1>9 DEF Reboot, handler
<1>10. CASE UNCHANGED vars
  BY <1>10 DEF vars
<1> QED
  BY <1>1, <1>2, <1>3, <1>4, <1>5, <1>6, <1>7, <1>8, <1>9, <1>10 DEF Next, Handler

(* A step that sends no parameter, and neither counts an answer of a parameter
   nor moves the locked section, keeps every lidar as it is. *)
LEMMA FrameStep ==
  ASSUME NEW h \in Handles, Untouched(h) \/ Covered(h),
         UNCHANGED <<config, set_bits, connect_state, acked, todo>>,
         (pc = "config" /\ handle = h)' = (pc = "config" /\ handle = h),
         Untouched(h) =>
           \A p \in Params, s \in Stages : requests'[h][p][s] = requests[h][p][s]
  PROVE  Untouched(h)' \/ Covered(h)'
<1>1. CASE Untouched(h)
  BY <1>1 DEF Untouched
<1>2. CASE Covered(h)
  BY <1>2 DEF Covered, Unsent
<1> QED  BY <1>1, <1>2

LEMMA NextCovered ==
  ASSUME IInv, [Next]_vars, NEW g \in Handles
  PROVE  Untouched(g)' \/ Covered(g)'
<1>0. /\ TypeOK /\ LockOK /\ RequestsOK
      /\ Untouched(g) \/ Covered(g)
      /\ "sent" \in Stages /\ "ok" \in Stages /\ "refused" \in Stages /\ "lost" \in Stages
      /\ Params \subseteq Kinds
  BY DEF IInv, TypeOK, RequestsOK, Stages, Kinds
<1>1. ASSUME NEW h \in Handles, InfoChange(h) PROVE Untouched(g)' \/ Covered(g)'
  <2>1. UNCHANGED <<config, set_bits, connect_state, acked, todo, requests>>
    BY <1>1 DEF InfoChange, GetFreeIndex, device, history
  <2>2. pc # "config" /\ pc' # "config"
    BY <1>1 DEF InfoChange
  <2> QED  BY <1>0, <2>1, <2>2, FrameStep
<1>2. CASE LockConfig
  <2>1. UNCHANGED <<config, set_bits, connect_state, acked, requests, handle>>
    BY <1>2 DEF LockConfig, device, history
  <2>2. pc = "lock" /\ pc' = "config" /\ todo' = config[handle]
    BY <1>2 DEF LockConfig
  <2>3. CASE Untouched(g)
    BY <2>1, <2>2, <2>3 DEF Untouched
  <2>4. CASE Covered(g)
    BY <2>1, <2>2, <2>4 DEF Covered, Unsent
  <2> QED  BY <1>0, <2>3, <2>4
<1>3. CASE SendParam
  <2>1. PICK p \in todo : /\ requests' = Sent(handle, {p}) /\ todo' = todo \ {p}
                          /\ set_bits' = [set_bits EXCEPT ![handle] = @ \cup {p}]
    BY <1>3 DEF SendParam
  <2>2. UNCHANGED <<config, connect_state, acked, pc, handle>> /\ pc = "config"
    BY <1>3 DEF SendParam, history
  <2>3. CASE g # handle
    <3>1. set_bits'[g] = set_bits[g] /\ Unsent(g)' = Unsent(g)
      BY <1>0, <2>1, <2>2, <2>3 DEF Unsent, TypeOK
    <3>2. \A q \in Params : requests'[g][q] = requests[g][q]
      BY <1>0, <2>1, <2>3, SentFacts DEF TypeOK
    <3>3. CASE Untouched(g)
      BY <2>2, <2>3, <3>2, <3>3 DEF Untouched
    <3>4. CASE Covered(g)
      BY <2>2, <3>1, <3>4 DEF Covered
    <3> QED  BY <1>0, <3>3, <3>4
  <2>4. CASE g = handle
    <3>1. /\ Unsent(g) = todo /\ Unsent(g)' = todo \ {p}
          /\ set_bits'[g] = set_bits[g] \cup {p}
      BY <1>0, <2>1, <2>2, <2>4 DEF Unsent, TypeOK
    <3>2. CASE Untouched(g)
      BY <2>1, <2>2, <2>4, <3>1, <3>2 DEF Untouched, Covered
    <3>3. CASE Covered(g)
      BY <2>2, <3>1, <3>3 DEF Covered
    <3> QED  BY <1>0, <3>2, <3>3
  <2> QED  BY <2>3, <2>4
<1>4. CASE UnlockConfig
  <2>1. UNCHANGED <<config, set_bits, connect_state, acked, requests, handle, todo>>
    BY <1>4 DEF UnlockConfig, device, history
  <2>2. pc = "config" /\ pc' = "attitude" /\ todo = {}
    BY <1>4 DEF UnlockConfig
  <2>3. CASE Untouched(g)
    BY <2>1, <2>2, <2>3 DEF Untouched
  <2>4. CASE Covered(g)
    BY <2>1, <2>2, <2>4 DEF Covered, Unsent
  <2> QED  BY <1>0, <2>3, <2>4
<1>5. CASE SendAttitude
  <2>1. UNCHANGED <<config, set_bits, connect_state, acked, todo, handle>>
    BY <1>5 DEF SendAttitude, device, history
  <2>2. pc # "config" /\ pc' # "config"
    BY <1>5 DEF SendAttitude
  <2>3. \A p \in Params : requests'[g][p] = requests[g][p]
    BY SMTT(30), <1>0, <1>5, SentFacts, KindsDisjoint DEF SendAttitude, TypeOK
  <2> QED  BY <1>0, <2>1, <2>2, <2>3, FrameStep
<1>6. CASE SendWorkMode
  <2>1. UNCHANGED <<config, set_bits, connect_state, acked, todo, handle>>
    BY <1>6 DEF SendWorkMode, device, history
  <2>2. pc # "config" /\ pc' # "config"
    BY <1>6 DEF SendWorkMode
  <2>3. \A p \in Params : requests'[g][p] = requests[g][p]
    <3>1. \A p \in Params : p \notin {WorkMode, Imu}
      BY KindsDisjoint
    <3>2. handle \in Handles /\ requests' = Sent(handle, {WorkMode, Imu})
      BY <1>0, <1>6 DEF SendWorkMode, TypeOK
    <3> QED  BY <1>0, <3>1, <3>2, SentFacts
  <2> QED  BY <1>0, <2>1, <2>2, <2>3, FrameStep
<1>7. ASSUME NEW h \in Handles, NEW k \in Kinds, OnSuccess(h, k)
      PROVE  Untouched(g)' \/ Covered(g)'
  <2>1. \A j \in Kinds : g # h \/ j # k => requests'[g][j] = requests[g][j]
    BY <1>0, <1>7, ClosedFacts DEF OnSuccess
  <2>2. UNCHANGED <<config, todo, pc, handle>>
    BY <1>7 DEF OnSuccess, handler
  <2>3. CASE g # h \/ k \notin Params
    <3>1. set_bits'[g] = set_bits[g] /\ connect_state'[g] = connect_state[g]
          /\ acked'[g] = acked[g]
      BY <1>0, <1>7, <2>3 DEF OnSuccess, device, TypeOK
    <3>2. \A p \in Params : requests'[g][p] = requests[g][p]
      BY <1>0, <2>1, <2>3
    <3>3. CASE Untouched(g)
      BY <2>2, <3>1, <3>2, <3>3 DEF Untouched
    <3>4. CASE Covered(g)
      BY <2>2, <3>1, <3>4 DEF Covered, Unsent
    <3> QED  BY <1>0, <3>3, <3>4
  <2>4. CASE g = h /\ k \in Params
    <3>1. /\ set_bits'[g] = set_bits[g] \ {k} /\ acked'[g] = acked[g] \cup {k}
          /\ connect_state'[g] = "sampling" => connect_state[g] = "sampling"
                                               \/ set_bits'[g] = {}
          /\ ~config_mutex
      BY <1>0, <1>7, <2>4 DEF OnSuccess, TypeOK
    <3>2. Unsent(g) = {} /\ Unsent(g)' = {}
      BY <1>0, <2>2, <3>1 DEF LockOK, Unsent
    <3>3. ~Untouched(g)
      BY <1>0, <1>7, <2>4 DEF OnSuccess, Untouched
    <3>4. Covered(g)
      BY <1>0, <3>3
    <3> QED  BY <2>2, <3>1, <3>2, <3>4 DEF Covered
  <2> QED  BY <2>3, <2>4
<1>8. ASSUME NEW h \in Handles, NEW k \in Kinds,
             OnTimeout(h, k) \/ OnFailure(h, k) \/ External(h, k)
      PROVE  Untouched(g)' \/ Covered(g)'
  <2>1. UNCHANGED <<config, set_bits, connect_state, acked, todo, pc, handle>>
    BY <1>8 DEF OnTimeout, OnFailure, External, Accept, AcceptUnheard, RefuseRequest,
                Lose, handler, device, history
  <2>2. /\ \E s \in Stages : requests[h][k][s] > 0
        /\ \A j \in Kinds : g # h \/ j # k => requests'[g][j] = requests[g][j]
    BY <1>0, <1>8, MovedFacts, ClosedFacts
    DEF OnTimeout, OnFailure, External, Accept, AcceptUnheard, RefuseRequest, Lose
  <2>3. Untouched(g) => g # h \/ k \notin Params
    BY <2>2 DEF Untouched
  <2>4. Untouched(g) =>
          \A p \in Params, s \in Stages : requests'[g][p][s] = requests[g][p][s]
    BY <1>0, <2>2, <2>3
  <2> QED  BY <1>0, <2>1, <2>4, FrameStep
<1>9. ASSUME NEW h \in Handles, Reboot(h) PROVE Untouched(g)' \/ Covered(g)'
  <2>1. UNCHANGED <<config, set_bits, connect_state, acked, todo, pc, handle, requests>>
    BY <1>9 DEF Reboot, handler, device, history
  <2> QED  BY <1>0, <2>1, FrameStep
<1>10. CASE UNCHANGED vars
  <2>1. UNCHANGED <<config, set_bits, connect_state, acked, todo, pc, handle, requests>>
    BY <1>10 DEF vars
  <2> QED  BY <1>0, <2>1, FrameStep
<1> QED
  BY <1>1, <1>2, <1>3, <1>4, <1>5, <1>6, <1>7, <1>8, <1>9, <1>10
  DEF Next, Handler, Answer

LEMMA NextIInv == IInv /\ [Next]_vars => IInv'
<1> SUFFICES ASSUME IInv, [Next]_vars PROVE IInv'
  OBVIOUS
<1>1. TypeOK'
  BY NextType DEF IInv
<1>2. LockOK'
  BY NextLock DEF IInv
<1>3. ASSUME NEW g \in Handles PROVE Untouched(g)' \/ Covered(g)'
  BY NextCovered
<1> QED  BY <1>1, <1>2, <1>3 DEF IInv

LEMMA IInvSampling == IInv => SamplingConfigured
BY DEF IInv, Untouched, Covered, SamplingConfigured

(* However answers, timeouts, refusals, reboots and announcements interleave, no
   lidar is published before it has confirmed every configured parameter
   (livox_lidar_callback.cpp:60-91, 137-142). *)
THEOREM SamplingIsConfigured == Spec => []SamplingConfigured
<1> QED  BY InitIInv, NextIInv, IInvSampling, PTL DEF Spec

-----------------------------------------------------------------------------
(* A bit stands for a request that is under way, or was refused. *)

Backed(h, p) == InFlight(h, p) \/ p \in rejected[h]

LEMMA MovedFlies ==
  ASSUME RequestsOK, NEW h \in Handles, NEW k \in Kinds,
         NEW from \in Stages, NEW to \in Stages, from # to,
         requests[h][k][from] > 0
  PROVE  Moved(h, k, from, to)[h][k][to] > 0
<1>1. requests[h] \in [Kinds -> [Stages -> Nat]] /\ requests[h][k] \in [Stages -> Nat]
  BY DEF RequestsOK
<1>2. requests[h][k][to] \in Nat
  BY <1>1
<1>3. Moved(h, k, from, to)[h][k][to] = requests[h][k][to] + 1
  BY <1>1, <1>2 DEF Moved, RequestsOK
<1> QED  BY <1>2, <1>3

LEMMA SentFlies ==
  ASSUME RequestsOK, NEW h \in Handles, NEW ks, NEW k \in Kinds, k \in ks
  PROVE  Sent(h, ks)[h][k]["sent"] > 0
<1>1. requests[h] \in [Kinds -> [Stages -> Nat]] /\ requests[h][k] \in [Stages -> Nat]
  BY DEF RequestsOK
<1>2. requests[h][k]["sent"] \in Nat
  BY <1>1 DEF Stages
<1>3. Sent(h, ks)[h][k]["sent"] = requests[h][k]["sent"] + 1
  BY <1>1, <1>2 DEF Sent, RequestsOK, Stages
<1> QED  BY <1>2, <1>3

(* A step that sends requests and leaves the others alone. *)
LEMMA SentBacked ==
  ASSUME RequestsOK, NEW h \in Handles, NEW ks, requests' = Sent(h, ks),
         UNCHANGED rejected, NEW g \in Handles, NEW p \in Params, Backed(g, p)
  PROVE  Backed(g, p)'
<1>1. p \in Kinds /\ "sent" \in Stages
  BY DEF Kinds, Stages
<1>2. CASE g = h /\ p \in ks
  BY <1>1, <1>2, SentFlies DEF Backed, InFlight
<1>3. CASE g # h \/ p \notin ks
  BY <1>1, <1>3, SentFacts DEF Backed, InFlight
<1> QED  BY <1>2, <1>3

LEMMA NextBacked ==
  ASSUME TypeOK, BitsOutstanding, [Next]_vars, NEW g \in Handles, NEW p \in set_bits'[g]
  PROVE  Backed(g, p)'
<1>0. /\ RequestsOK /\ Params \subseteq Kinds
      /\ "sent" \in Stages /\ "ok" \in Stages /\ "refused" \in Stages /\ "lost" \in Stages
  BY DEF TypeOK, RequestsOK, Kinds, Stages
<1>p. p \in Params
  BY NextType DEF TypeOK
<1>b. p \in set_bits[g] => Backed(g, p)
  BY DEF BitsOutstanding, Backed
<1>1. CASE SendParam
  <2>1. PICK q \in todo : /\ requests' = Sent(handle, {q})
                          /\ set_bits' = [set_bits EXCEPT ![handle] = @ \cup {q}]
    BY <1>1 DEF SendParam
  <2>2. handle \in Handles /\ q \in Params /\ rejected' = rejected
    BY <1>1 DEF SendParam, TypeOK, history
  <2>3. CASE p \in set_bits[g]
    BY <1>0, <1>p, <1>b, <2>1, <2>2, <2>3, SentBacked
  <2>4. CASE p \notin set_bits[g]
    <3>1. g = handle /\ p = q
      BY <2>1, <2>2, <2>4 DEF TypeOK
    <3>2. Sent(handle, {q})[handle][q]["sent"] > 0
      BY <1>0, <2>2, SentFlies
    <3> QED  BY <1>0, <2>1, <3>1, <3>2 DEF Backed, InFlight
  <2> QED  BY <2>3, <2>4
<1>2. CASE SendAttitude \/ SendWorkMode
  <2>1. UNCHANGED <<set_bits, rejected>> /\ handle \in Handles
    BY <1>2 DEF SendAttitude, SendWorkMode, device, history, TypeOK
  <2>2. requests' = requests \/ \E ks : requests' = Sent(handle, ks)
    BY <1>2 DEF SendAttitude, SendWorkMode
  <2>3. CASE requests' = requests
    BY <1>b, <2>1, <2>3 DEF Backed, InFlight
  <2> QED  BY <1>0, <1>p, <1>b, <2>1, <2>2, <2>3, SentBacked
<1>3. ASSUME NEW h \in Handles, NEW k \in Kinds, OnSuccess(h, k)
      PROVE  Backed(g, p)'
  <2>1. \A j \in Kinds : g # h \/ j # k => requests'[g][j] = requests[g][j]
    BY <1>0, <1>3, ClosedFacts DEF OnSuccess
  <2>2. p \in set_bits[g] /\ (g # h \/ p # k) /\ rejected' = rejected
    BY <1>3, <1>p DEF OnSuccess, device, TypeOK
  <2> QED  BY <1>0, <1>p, <1>b, <2>1, <2>2 DEF Backed, InFlight
<1>4. ASSUME NEW h \in Handles, NEW k \in Kinds, OnTimeout(h, k) \/ External(h, k)
      PROVE  Backed(g, p)'
  <2>1. UNCHANGED <<set_bits, rejected>>
    BY <1>4 DEF OnTimeout, External, Accept, AcceptUnheard, RefuseRequest, Lose, device,
                history
  <2>2. \A j \in Kinds : g # h \/ j # k => requests'[g][j] = requests[g][j]
    BY <1>0, <1>4, MovedFacts, ClosedFacts
    DEF OnTimeout, External, Accept, AcceptUnheard, RefuseRequest, Lose
  <2>3. CASE g = h /\ p = k
    <3>1. \E s \in Stages : requests'[h][k][s] > 0
      BY <1>0, <1>p, <1>4, <2>3, MovedFlies, KindsDisjoint
      DEF OnTimeout, External, Accept, AcceptUnheard, RefuseRequest, Lose
    <3> QED  BY <2>3, <3>1 DEF Backed, InFlight
  <2>4. CASE g # h \/ p # k
    BY <1>0, <1>p, <1>b, <2>1, <2>2, <2>4 DEF Backed, InFlight
  <2> QED  BY <2>3, <2>4
<1>5. ASSUME NEW h \in Handles, NEW k \in Kinds, OnFailure(h, k)
      PROVE  Backed(g, p)'
  <2>1. set_bits' = set_bits
    BY <1>5 DEF OnFailure, device
  <2>2. \A j \in Kinds : g # h \/ j # k => requests'[g][j] = requests[g][j]
    <3>1. CASE k = WorkMode
      BY <1>0, <1>5, <3>1, MovedFacts DEF OnFailure
    <3>2. CASE k # WorkMode
      BY <1>0, <1>5, <3>2, ClosedFacts DEF OnFailure
    <3> QED  BY <3>1, <3>2
  <2>3. rejected[g] \subseteq rejected'[g]
    BY <1>5 DEF OnFailure, TypeOK
  <2>4. CASE g = h /\ p = k
    BY <1>5, <1>p, <2>4, KindsDisjoint DEF OnFailure, TypeOK, Backed
  <2>5. CASE g # h \/ p # k
    BY <1>0, <1>p, <1>b, <2>1, <2>2, <2>3, <2>5 DEF Backed, InFlight
  <2> QED  BY <2>4, <2>5
<1>6. ASSUME UNCHANGED <<set_bits, rejected, requests>> PROVE Backed(g, p)'
  BY <1>b, <1>6 DEF Backed, InFlight
<1>7. CASE (\E h \in Handles : InfoChange(h) \/ Reboot(h)) \/ LockConfig \/ UnlockConfig
  BY <1>6, <1>7 DEF InfoChange, Reboot, LockConfig, UnlockConfig, device, history
<1>8. CASE UNCHANGED vars
  BY <1>6, <1>8 DEF vars
<1> QED
  BY <1>1, <1>2, <1>3, <1>4, <1>5, <1>7, <1>8 DEF Next, Handler, Answer

LEMMA InitBits == Init => BitsOutstanding
BY DEF Init, BitsOutstanding

LEMMA NextBits == TypeOK /\ BitsOutstanding /\ [Next]_vars => BitsOutstanding'
<1> SUFFICES ASSUME TypeOK, BitsOutstanding, [Next]_vars PROVE BitsOutstanding'
  OBVIOUS
<1>1. ASSUME NEW g \in Handles, NEW p \in set_bits'[g] PROVE Backed(g, p)'
  BY NextBacked
<1> QED  BY <1>1 DEF BitsOutstanding, Backed

(* A bit is never left set by an accident of timing, for any lidars, parameters and
   reboots: its request is under way, or was refused
   (livox_lidar_callback.cpp:60-91, 137-155). *)
THEOREM BitsAreOutstanding == Spec => []BitsOutstanding
<1> QED  BY InitType, InitBits, NextType, NextBits, PTL DEF Spec

=============================================================================
